---- MODULE Spec2Model ----
(***************************************************************************)
(* Conversation analytics engine: the response-latency scans of            *)
(* app/services/delays_service.py and the repetition detector of           *)
(* app/services/analysis_service.py, as state machines over a message      *)
(* table.                                                                  *)
(*                                                                         *)
(* Text values (skills, agent names, sender labels, keywords) are          *)
(* sequences of one-character strings so that lower-casing, concatenation  *)
(* and substring search are computed as the code computes them.  Sent      *)
(* times are whole seconds; total_seconds() of a difference of such times  *)
(* is an integer that round(.., 2) leaves unchanged.                       *)
(***************************************************************************)
EXTENDS Integers, Sequences, FiniteSets, TLC

(***************************************************************************)
(* Text helpers                                                            *)
(***************************************************************************)
UpperChars == <<"A","B","C","D","E","F","G","H","I","J","K","L","M",
                "N","O","P","Q","R","S","T","U","V","W","X","Y","Z">>

LowerChars == <<"a","b","c","d","e","f","g","h","i","j","k","l","m",
                "n","o","p","q","r","s","t","u","v","w","x","y","z">>

\* str.lower() on one character
LowerChar(c) ==
    IF \E k \in 1..26 : UpperChars[k] = c
    THEN LowerChars[CHOOSE k \in 1..26 : UpperChars[k] = c]
    ELSE c

\* str.lower()
Lower(s) == [k \in 1..Len(s) |-> LowerChar(s[k])]

\* needle in hay (str.find(needle) != -1, the "in" operator, a regex made of
\* literal characters)
Contains(hay, needle) ==
    \E k \in 0..(Len(hay) - Len(needle)) :
        SubSeq(hay, k + 1, k + Len(needle)) = needle

\* str.strip(): drop leading and trailing blanks
RECURSIVE LStrip(_)
LStrip(s) == IF s # <<>> /\ Head(s) = " " THEN LStrip(Tail(s)) ELSE s

RECURSIVE RStrip(_)
RStrip(s) ==
    IF s # <<>> /\ s[Len(s)] = " " THEN RStrip(SubSeq(s, 1, Len(s) - 1)) ELSE s

Strip(s) == RStrip(LStrip(s))

\* str.lower() of the values of the "Sent By" and "Message Type" columns
LowerName(v) ==
    CASE v = "Consumer"        -> "consumer"
      [] v = "Bot"             -> "bot"
      [] v = "Agent"           -> "agent"
      [] v = "System"          -> "system"
      [] v = "Normal Message"  -> "normal message"
      [] v = "Transfer"        -> "transfer"
      [] v = "Private Message" -> "private message"
      [] OTHER                 -> v

\* pandas NaN in a text column; str(NaN) is "nan"
NaN == <<"NaN">>

Str(v) == IF v = NaN THEN <<"n","a","n">> ELSE v

\* Optional values: None is the empty tuple, a value v is <<v>>
None == <<>>

Some(v) == <<v>>

(***************************************************************************)
(* Values of the input table                                               *)
(***************************************************************************)
\* skills of the export
SkillGptD == <<"G","P","T","_","D">>

SkillSales == <<"S","a","l","e","s">>

\* a skill that is only a part of the doctors' filter term
SkillGpt == <<"G","P","T">>

\* agent display names
NameAnn == <<"A","n","n">>

NameAbbot == <<"A","b","b","o","t">>

\* a department's skill_filter (app/config.py DEPARTMENT_CONFIG), passed to
\* the latency functions as keywords; None when the caller gives none
KeywordsGptD == <<SkillGptD>>

KeywordChoices == {None, Some(KeywordsGptD)}

MaxRows == 3

MaxSubRows == 5

MaxDialogRows == 4

MaxRepRows == 4

\* the clocks cover the longest table
MaxClock == MaxRows + MaxSubRows + MaxDialogRows + MaxRepRows

\* sent times by row position: in order of arrival, or the reverse; the
\* differences of two times of a clock are all distinct
ClockAsc == [k \in 1..MaxClock |-> 2 ^ k]

ClockDesc == [k \in 1..MaxClock |-> 2 ^ (MaxClock + 1 - k)]

\* a dialogue with a reply 5 s after each message and a message every 20 s:
\* 0, 5, 20, 25, 40, 45, ...
ClockDialog ==
    [k \in 1..MaxClock |-> 20 * ((k - 1) \div 2) + 5 * ((k - 1) % 2)]

\* an export that repeats each sent time once: 1, 1, 2, 2, 3, ...
ClockPairs == [k \in 1..MaxClock |-> (k + 1) \div 2]

\* the cells of a row other than its time and message id
Cell(c, s, m, k, a) ==
    [conv |-> c, sender |-> s, mtype |-> m, skill |-> k, agent |-> a,
     text |-> <<>>]

DelayCells ==
    {Cell(1, "Consumer", "Normal Message", SkillGptD, NaN),
     Cell(1, "Bot", "Normal Message", SkillGptD, NaN),
     Cell(1, "Bot", "Normal Message", SkillSales, NaN),
     Cell(1, "Agent", "Normal Message", SkillGptD, NameAnn),
     Cell(1, "Agent", "Normal Message", SkillGptD, NameAbbot),
     Cell(1, "System", "Normal Message", SkillGptD, NaN),
     Cell(1, "System", "Transfer", SkillGptD, NaN),
     Cell(1, "System", "Private Message", SkillGptD, NaN),
     Cell(1, "Agent", "Private Message", SkillGptD, NameAnn),
     Cell(2, "Consumer", "Normal Message", SkillGptD, NaN),
     Cell(2, "Bot", "Normal Message", SkillGptD, NaN)}

\* a smaller choice of rows for the longer tables of the subsequent-response
\* scan
SubsequentCells ==
    {Cell(1, "Consumer", "Normal Message", SkillGptD, NaN),
     Cell(1, "Bot", "Normal Message", SkillGptD, NaN),
     Cell(1, "Agent", "Normal Message", SkillGptD, NameAnn),
     Cell(1, "Agent", "Normal Message", SkillGptD, NameAbbot),
     Cell(1, "System", "Transfer", SkillGptD, NaN),
     Cell(2, "Bot", "Normal Message", SkillGptD, NaN)}

\* the rows of plain dialogues, and a few others
DialogCells ==
    {Cell(1, "Consumer", "Normal Message", SkillGptD, NaN),
     Cell(1, "Bot", "Normal Message", SkillGptD, NaN),
     Cell(1, "Agent", "Normal Message", SkillGptD, NameAnn),
     Cell(1, "System", "Transfer", SkillGptD, NaN),
     Cell(2, "Consumer", "Normal Message", SkillGptD, NaN),
     Cell(2, "Bot", "Normal Message", SkillGptD, NaN),
     Cell(2, "Bot", "Normal Message", SkillSales, NaN)}

\* message texts
TextHi == <<"H","i">>

TextBye == <<"B","y","e">>

\* a skill that holds the doctors' filter term in another case
SkillGptLower == <<"g","p","t","_","d","x">>

RepCell(c, s, m, k, t) == [Cell(c, s, m, k, NaN) EXCEPT !.text = t]

\* the rows of the repetition analysis
RepCells ==
    {RepCell(1, "Bot", "Normal Message", SkillGptD, TextHi),
     RepCell(1, "Bot", "Normal Message", SkillGptD, TextBye),
     RepCell(1, "Bot", "Normal Message", SkillGptD, NaN),
     RepCell(1, "Bot", "Normal Message", NaN, TextHi),
     RepCell(1, "Bot", "Transfer", SkillGptD, TextHi),
     RepCell(1, "Consumer", "Normal Message", SkillGptD, TextHi),
     RepCell(2, "Bot", "Normal Message", SkillGptLower, TextHi),
     RepCell(2, "Bot", "Normal Message", SkillGpt, TextHi)}

\* DEPARTMENT_CONFIG entries: the doctors' entry, and an entry whose
\* skill_filter is empty
DepartmentDoctors == [name |-> "doctors", skill_filter |-> <<SkillGptD>>]

DepartmentNoFilter == [name |-> "cc_sales", skill_filter |-> <<>>]

Departments == {DepartmentDoctors, DepartmentNoFilter}

\* the columns of the export
RequiredColumns ==
    {"Conversation ID", "Message Sent Time", "Sent By", "Message Type"}

AllColumns ==
    RequiredColumns \cup {"Skill", "TEXT", "MESSAGE_ID", "Agent Name "}

\* the full schema, and the schemas that lack one required column
ColumnChoices == {AllColumns} \cup {AllColumns \ {c} : c \in RequiredColumns}

\* a table: the cells, the clock giving each row its sent time, and the row
\* number as MESSAGE_ID
MakeTable(cells, clock) ==
    [k \in 1..Len(cells) |->
        [conv   |-> cells[k].conv,
         time   |-> clock[k],
         sender |-> cells[k].sender,
         mtype  |-> cells[k].mtype,
         skill  |-> cells[k].skill,
         text   |-> cells[k].text,
         mid    |-> k,
         agent  |-> cells[k].agent]]

Tables(cellSet, n, clocks) ==
    {MakeTable(cells, clock) :
        cells \in UNION {[1..k -> cellSet] : k \in 0..n}, clock \in clocks}

(***************************************************************************)
(* State                                                                   *)
(***************************************************************************)
VARIABLES
    df,                           \* the message table given to the function
    keywords,                     \* the keywords argument
    call,                         \* the function being executed
    todo,                         \* the calls the caller makes after it
    pc,                           \* "groups", "rows", "done", "failed"
    conv_ids,                     \* the keys groupby has still to yield
    conv_id,                      \* the current group's key
    group,                        \* the current group's filtered rows
    i,                            \* index of the current row of group
    first_consumer_message_time,  \* the anchor: None or Some(time)
    first_response_recorded,
    sender_name,                  \* None while the local is unbound
    response_times,               \* the records appended so far
    first_response_df,            \* table returned by the first-response call
    subsequent_response_df,       \* table returned by the subsequent call
    error,                        \* the exception raised, None if none
    department,                   \* the department's configuration entry
    repetition_data,              \* get_repetitions: the records so far
    chats_with_repetition,        \* get_repetitions: conversations with one
    total_chats,                  \* get_repetitions: eligible conversations
    result,                       \* the tuple get_repetitions returns
    raw,                          \* the table as it was fetched
    pending,                      \* raw tables whose analysis is still to run
    results,                      \* the tuples of the analyses already run
    target_skill_conversations,   \* process_conversations: the set it tracks
    total_chats_with_skill,       \* calculate_handling_percentage: its count
    fully_bot_conversations,      \* calculate_handling_percentage: its list
    handling_percentage,          \* value of calculate_handling_percentage
    agent_percentage,             \* value of
                                  \* calculate_agent_intervention_percentage
    summary,                      \* value of calculate_summary_stats
    columns,                      \* the columns of the fetched table
    cleaned_file,                 \* the cleaned snapshot written, if any
    segments,                     \* segment_conversation: the closed segments
    current_segment,              \* segment_conversation: the open lines
    current_agent,                \* segment_conversation: the current label
    first_agent_or_bot_encountered,
    last_skill,                   \* skill of the last bot/agent message
    marking,                      \* the [IDENTIFIER] window is open
    all_segments,                 \* process_conversations: its segment rows
    merged_df,                    \* the table process_conversations returns
    endpoint,                     \* the API function that is being served
    upload_to_sheets,             \* the request's upload_to_sheets flag
    sheets_api,                   \* how Google Sheets answers this request
    export,                       \* what fetch_data left in the raw file
    departments_left,             \* analyze_all_departments: keys to visit
    batch_results,                \* analyze_all_departments: results
    errors,                       \* analyze_all_departments: errors
    successful_analyses,
    failed_analyses,
    repetitions_result,           \* the AnalysisResult of the current call
    delays_result,                \* analyze_combined: the delays dictionary
    output_files,                 \* the result files written
    uploads,                      \* the upload calls made and their outcome
    log,                          \* the departments whose analysis started
    response,                     \* what the API function returned or raised
    responses,                    \* the requests served before this one
    request,                      \* the HTTP request that the router got
    token,                        \* fetch_data: the token of the session
    csv_data,                     \* fetch_data: the text downloaded
    csv_file,                     \* the file at csv_output_path
    tableau_calls,                \* the calls made to the Tableau server
    fetched                       \* what fetch_data returns

\* the locals and results of the latency functions
delayVars == <<keywords, call, todo, conv_id, group, i,
               first_consumer_message_time, first_response_recorded,
               sender_name, response_times, first_response_df,
               subsequent_response_df>>

\* the locals and the result of get_repetitions
\* the analyses of a sequence of requests
\* the locals and values of the metrics of the delays analysis
metricVars == <<target_skill_conversations, total_chats_with_skill,
                fully_bot_conversations, handling_percentage,
                agent_percentage, summary>>

\* the schema of the table and the snapshot of preprocess_data
normVars == <<columns, cleaned_file>>

runVars == <<raw, normVars, pending, results, metricVars>>

\* the locals and the result of the Segmenter
segVars == <<segments, current_segment, current_agent,
             first_agent_or_bot_encountered, last_skill, marking,
             all_segments, merged_df>>

\* the request, the locals and the effects of the API functions
routeVars == <<endpoint, upload_to_sheets, sheets_api, export,
               departments_left, batch_results, errors, successful_analyses,
               failed_analyses, repetitions_result, delays_result,
               output_files, uploads, log, response, responses, request>>

\* the components that the latency and repetition functions never touch
\* the locals and the effects of TableauService.fetch_data
fetchVars == <<token, csv_data, csv_file, tableau_calls, fetched>>

otherVars == <<segVars, routeVars, fetchVars>>

repVars == <<department, otherVars, repetition_data, chats_with_repetition,
             total_chats, result, runVars>>

vars == <<df, pc, conv_ids, error, delayVars, repVars>>

(***************************************************************************)
(* Helpers of the latency scans                                            *)
(***************************************************************************)
\* the keys of df.groupby("Conversation ID"), ascending
RECURSIVE SortedSeq(_)
SortedSeq(S) ==
    IF S = {} THEN <<>>
    ELSE LET m == CHOOSE x \in S : \A y \in S : x <= y
         IN  <<m>> \o SortedSeq(S \ {m})

GroupKeys(table) == SortedSeq({table[k].conv : k \in 1..Len(table)})

\* the row filter applied to each group
KeptByScan(row) ==
    \/ LowerName(row.mtype) \in {"normal message", "transfer"}
    \/ (LowerName(row.mtype) = "private message"
        /\ LowerName(row.sender) = "system")

GroupRows(table, c) ==
    SelectSeq(table, LAMBDA row : row.conv = c /\ KeptByScan(row))

\* (sent time - anchor).total_seconds(), rounded to 2 places
TimeDiff(row, anchor) == row.time - anchor[1]

\* the label given to the sender of a response
SenderName(row) ==
    IF LowerName(row.sender) = "bot"
    THEN <<"B","O","T","_">> \o Lower(Strip(Str(row.skill)))
    ELSE IF LowerName(row.sender) = "agent" THEN row.agent
    ELSE <<"S","y","s","t","e","m">>

\* mutant: every response is recorded, whatever its label
IsBotLabel_Any(name) == TRUE

\* str(sender_name).lower().find("bot") != -1
IsBotLabel(name) == Contains(Lower(Str(name)), <<"b","o","t">>)

ResponseRecord(c, row, name, diff) ==
    [conv |-> c, sender |-> name, latency |-> diff, mid |-> row.mid,
     skill |-> Lower(Strip(Str(row.skill))), time |-> row.time]

\* Sender.str.contains('|'.join(keywords), case=False)
MatchesKeywords(rec, kws) ==
    \E k \in 1..Len(kws) : Contains(Lower(Str(rec.sender)), Lower(kws[k]))

\* the orders sort_values(by latency, ascending=False) may return
IsSortedDesc(s) == \A k \in 1..(Len(s) - 1) : s[k].latency >= s[k + 1].latency

SortedDesc(recs) ==
    {[k \in 1..Len(recs) |-> recs[p[k]]] :
        p \in {q \in [1..Len(recs) -> 1..Len(recs)] :
                 /\ \A a, b \in 1..Len(recs) : a # b => q[a] # q[b]
                 /\ IsSortedDesc([k \in 1..Len(recs) |-> recs[q[k]]])}}


\* the branches of the scan, in the order the code tests them
IsFirstConsumerMessage(sender, anchor) ==
    sender = "consumer" /\ anchor = None

\* mutant: a transfer does not restart the clock
IsTransferReset_Never(message_type, anchor) == FALSE

\* mutant: a transfer starts the clock also when no anchor is set
IsTransferReset_Always(message_type, anchor) == message_type = "transfer"

IsTransferReset(message_type, anchor) ==
    message_type = "transfer" /\ anchor # None

IsPrivateMessageReset(sender, message_type, anchor) ==
    sender = "system" /\ message_type = "private message" /\ anchor # None

IsFirstResponse(sender, anchor, recorded) ==
    sender \in {"bot", "agent", "system"} /\ anchor # None /\ ~recorded

IsResponse(sender, anchor) ==
    sender \in {"bot", "agent", "system"} /\ anchor # None

\* the negative-latency log line formats sender_name, which is a local that
\* only a response handled earlier in the same call has assigned
LogRaises(time_diff, name) == time_diff < 0 /\ name = None

(***************************************************************************)
(* Calling the latency functions on a table                                *)
(***************************************************************************)
\* no metric has been computed
\* segment_conversation and process_conversations have not been called
SegmenterIdle ==
    /\ segments = <<>>
    /\ current_segment = <<>>
    /\ current_agent = None
    /\ first_agent_or_bot_encountered = FALSE
    /\ last_skill = None
    /\ marking = FALSE
    /\ all_segments = <<>>
    /\ merged_df = None

\* no API function is being served
RoutesIdle ==
    /\ endpoint = "none"
    /\ upload_to_sheets = FALSE
    /\ sheets_api = "ok"
    /\ export = None
    /\ departments_left = <<>>
    /\ batch_results = <<>>
    /\ errors = <<>>
    /\ successful_analyses = 0
    /\ failed_analyses = 0
    /\ repetitions_result = None
    /\ delays_result = None
    /\ output_files = {}
    /\ uploads = <<>>
    /\ log = <<>>
    /\ response = None
    /\ responses = <<>>
    /\ request = None

\* no call of fetch_data has begun: token = None
FetchIdle ==
    /\ token = None
    /\ csv_data = None
    /\ csv_file = None
    /\ tableau_calls = <<>>
    /\ fetched = None

OthersIdle == SegmenterIdle /\ RoutesIdle /\ FetchIdle

MetricsIdle ==
    /\ target_skill_conversations = {}
    /\ total_chats_with_skill = 0
    /\ fully_bot_conversations = <<>>
    /\ handling_percentage = None
    /\ agent_percentage = None
    /\ summary = None

CallInit(calls, tables) ==
    /\ df \in tables
    /\ keywords \in KeywordChoices
    /\ call = Head(calls)
    /\ todo = Tail(calls)
    /\ pc = "groups"
    /\ conv_ids = GroupKeys(df)
    /\ conv_id = None
    /\ group = <<>>
    /\ i = 1
    /\ first_consumer_message_time = None
    /\ first_response_recorded = FALSE
    /\ sender_name = None
    /\ response_times = <<>>
    /\ first_response_df = None
    /\ subsequent_response_df = None
    /\ error = None
    /\ department = None
    /\ repetition_data = <<>>
    /\ chats_with_repetition = {}
    /\ total_chats = 0
    /\ result = None
    /\ raw = df
    /\ pending = <<>>
    /\ results = <<>>
    /\ MetricsIdle
    /\ OthersIdle
    /\ columns = AllColumns
    /\ cleaned_file = None

\* for conv_id, group in df.groupby("Conversation ID"): the next group, its
\* rows filtered, and the scan state of a new conversation
NextGroup ==
    /\ pc = "groups"
    /\ conv_ids # <<>>
    /\ conv_id' = Some(Head(conv_ids))
    /\ conv_ids' = Tail(conv_ids)
    /\ group' = GroupRows(df, Head(conv_ids))
    /\ i' = 1
    /\ first_consumer_message_time' = None
    /\ first_response_recorded' = FALSE
    /\ pc' = IF GroupRows(df, Head(conv_ids)) = <<>> THEN "groups" ELSE "rows"
    /\ UNCHANGED <<df, keywords, call, todo, sender_name, response_times,
                   first_response_df, subsequent_response_df, error, repVars>>

\* the loop over the rows moves on, or ends (also by break)
Advance(stop) ==
    IF stop \/ i = Len(group)
    THEN /\ pc' = "groups"
         /\ i' = i
    ELSE /\ pc' = "rows"
         /\ i' = i + 1

\* an exception leaves the function
Raise(name) ==
    /\ pc' = "failed"
    /\ error' = Some(name)

\* the anchor is (re)started at the row's sent time
StartClock(row) ==
    /\ first_consumer_message_time' = Some(row.time)
    /\ Advance(FALSE)
    /\ UNCHANGED <<first_response_recorded, sender_name, response_times,
                   error>>

\* a row that matches no branch
SkipRow ==
    /\ Advance(FALSE)
    /\ UNCHANGED <<first_consumer_message_time, first_response_recorded,
                   sender_name, response_times, error>>

AppendRecord(row, name, time_diff) ==
    response_times' = Append(response_times,
                             ResponseRecord(conv_id[1], row, name, time_diff))

(***************************************************************************)
(* calculate_first_response_times: one row of the scan                     *)
(***************************************************************************)
\* mutant: the scan goes on after the record
StopAfterFirst_Missing ==
    /\ Advance(FALSE)
    /\ UNCHANGED first_response_recorded

\* after the record: first_response_recorded = True; break
StopAfterFirst ==
    /\ first_response_recorded' = TRUE
    /\ Advance(TRUE)

FirstResponseRow ==
    /\ call = "first"
    /\ pc = "rows"
    /\ LET current_row == group[i]
           sender == LowerName(current_row.sender)
           message_type == LowerName(current_row.mtype)
           anchor == first_consumer_message_time
           time_diff == TimeDiff(current_row, anchor)
           name == SenderName(current_row)
       IN
       IF IsFirstConsumerMessage(sender, anchor)
       THEN StartClock(current_row)
       ELSE IF IsTransferReset(message_type, anchor)
       THEN StartClock(current_row)
       ELSE IF IsPrivateMessageReset(sender, message_type, anchor)
       THEN StartClock(current_row)
       ELSE IF IsFirstResponse(sender, anchor, first_response_recorded)
       THEN IF LogRaises(time_diff, sender_name)
            THEN /\ Raise("UnboundLocalError")
                 /\ UNCHANGED <<i, first_consumer_message_time,
                                first_response_recorded, sender_name,
                                response_times>>
            ELSE /\ sender_name' = Some(name)
                 /\ IF IsBotLabel(name)
                    THEN /\ AppendRecord(current_row, name, time_diff)
                         /\ StopAfterFirst
                    ELSE /\ Advance(FALSE)
                         /\ UNCHANGED <<response_times,
                                        first_response_recorded>>
                 /\ UNCHANGED <<first_consumer_message_time, error>>
       ELSE SkipRow
    /\ UNCHANGED <<df, keywords, call, todo, conv_ids, conv_id, group,
                   first_response_df, subsequent_response_df, repVars>>

(***************************************************************************)
(* calculate_subsequent_response_times: one row of the scan                *)
(***************************************************************************)
\* mutant: the skipped first response keeps the anchor
SkipFirstResponse_KeepAnchor ==
    /\ first_response_recorded' = TRUE
    /\ Advance(FALSE)
    /\ UNCHANGED <<first_consumer_message_time, sender_name, response_times,
                   error>>

\* the first response of a conversation is skipped
SkipFirstResponse ==
    /\ first_response_recorded' = TRUE
    /\ first_consumer_message_time' = None
    /\ Advance(FALSE)
    /\ UNCHANGED <<sender_name, response_times, error>>

\* mutant: the reset is made for every later response
RecordSubsequent_AlwaysClear(row, name, time_diff) ==
    /\ sender_name' = Some(name)
    /\ IF IsBotLabel(name)
       THEN AppendRecord(row, name, time_diff)
       ELSE UNCHANGED response_times
    /\ first_consumer_message_time' = None
    /\ Advance(FALSE)
    /\ UNCHANGED <<first_response_recorded, error>>

\* a later response: the record and the reset are for bot labels only
RecordSubsequent(row, name, time_diff) ==
    /\ sender_name' = Some(name)
    /\ IF IsBotLabel(name)
       THEN /\ AppendRecord(row, name, time_diff)
            /\ first_consumer_message_time' = None
       ELSE UNCHANGED <<response_times, first_consumer_message_time>>
    /\ Advance(FALSE)
    /\ UNCHANGED <<first_response_recorded, error>>

SubsequentResponseRow ==
    /\ call = "subsequent"
    /\ pc = "rows"
    /\ LET current_row == group[i]
           sender == LowerName(current_row.sender)
           message_type == LowerName(current_row.mtype)
           anchor == first_consumer_message_time
           time_diff == TimeDiff(current_row, anchor)
           name == SenderName(current_row)
       IN
       IF IsFirstConsumerMessage(sender, anchor)
       THEN StartClock(current_row)
       ELSE IF IsTransferReset(message_type, anchor)
       THEN StartClock(current_row)
       ELSE IF IsPrivateMessageReset(sender, message_type, anchor)
       THEN StartClock(current_row)
       ELSE IF IsResponse(sender, anchor)
       THEN IF ~first_response_recorded
            THEN SkipFirstResponse
            ELSE IF LogRaises(time_diff, sender_name)
            THEN /\ Raise("UnboundLocalError")
                 /\ UNCHANGED <<i, first_consumer_message_time,
                                first_response_recorded, sender_name,
                                response_times>>
            ELSE RecordSubsequent(current_row, name, time_diff)
       ELSE SkipRow
    /\ UNCHANGED <<df, keywords, call, todo, conv_ids, conv_id, group,
                   first_response_df, subsequent_response_df, repVars>>

(***************************************************************************)
(* The end of both functions: keyword filter, sort, return                 *)
(***************************************************************************)
\* "if keywords:"
HasKeywords == keywords # None /\ keywords[1] # <<>>

\* the records the keyword filter keeps
FilterRecords(recs) ==
    IF HasKeywords
    THEN SelectSeq(recs, LAMBDA rec : MatchesKeywords(rec, keywords[1]))
    ELSE recs

ReturnTable ==
    /\ pc = "groups"
    /\ conv_ids = <<>>
    /\ IF HasKeywords /\ response_times = <<>>
       THEN \* a frame built from no records has no 'Sender' column
            /\ Raise("KeyError")
            /\ UNCHANGED <<first_response_df, subsequent_response_df>>
       ELSE /\ \E t \in SortedDesc(FilterRecords(response_times)) :
                 IF call = "first"
                 THEN /\ first_response_df' = Some(t)
                      /\ UNCHANGED subsequent_response_df
                 ELSE /\ subsequent_response_df' = Some(t)
                      /\ UNCHANGED first_response_df
            /\ pc' = "done"
            /\ UNCHANGED error
    /\ UNCHANGED <<df, keywords, call, todo, conv_ids, conv_id, group, i,
                   first_consumer_message_time, first_response_recorded,
                   sender_name, response_times, repVars>>

\* analyze_department_delays: the caller goes on to its next call, which
\* starts with its own locals
NextCall ==
    /\ pc = "done"
    /\ todo # <<>>
    /\ call' = Head(todo)
    /\ todo' = Tail(todo)
    /\ pc' = "groups"
    /\ conv_ids' = GroupKeys(df)
    /\ conv_id' = None
    /\ group' = <<>>
    /\ i' = 1
    /\ first_consumer_message_time' = None
    /\ first_response_recorded' = FALSE
    /\ sender_name' = None
    /\ response_times' = <<>>
    /\ UNCHANGED <<df, keywords, first_response_df, subsequent_response_df,
                   error, repVars>>

(***************************************************************************)
(* Specifications                                                          *)
(***************************************************************************)
\* calculate_first_response_times on any table
InitFirst ==
    CallInit(<<"first">>, Tables(DelayCells, MaxRows, {ClockAsc, ClockDesc}))

NextFirst == NextGroup \/ FirstResponseRow \/ ReturnTable

SpecFirst == InitFirst /\ [][NextFirst]_vars

\* calculate_subsequent_response_times on longer tables
InitSubsequent ==
    CallInit(<<"subsequent">>,
             Tables(SubsequentCells, MaxSubRows, {ClockAsc, ClockDesc}))

NextSubsequent == NextGroup \/ SubsequentResponseRow \/ ReturnTable

SpecSubsequent == InitSubsequent /\ [][NextSubsequent]_vars

\* both calls, as analyze_department_delays makes them on one table
InitDelays ==
    CallInit(<<"first", "subsequent">>,
             Tables(DialogCells, MaxDialogRows, {ClockDialog, ClockDesc}))

NextDelays ==
    \/ NextGroup
    \/ FirstResponseRow
    \/ SubsequentResponseRow
    \/ ReturnTable
    \/ NextCall

SpecDelays == InitDelays /\ [][NextDelays]_vars

(***************************************************************************)
(* The repetition analysis: preprocess_data, then get_repetitions          *)
(* (app/services/analysis_service.py)                                      *)
(***************************************************************************)
\* the row that sort_values(by=[conversation, time]) puts first: the least
\* key, and among equal keys the first of the table (the sort is stable)
FirstInOrder(table) ==
    CHOOSE k \in 1..Len(table) :
        \A j \in 1..Len(table) :
            \/ table[k].conv < table[j].conv
            \/ (table[k].conv = table[j].conv
                /\ table[k].time < table[j].time)
            \/ (table[k].conv = table[j].conv
                /\ table[k].time = table[j].time /\ k <= j)

Without(table, k) ==
    SubSeq(table, 1, k - 1) \o SubSeq(table, k + 1, Len(table))

SortValues_None(table) == table

SortValues_Reversed(table) ==
    [k \in 1..Len(table) |-> table[Len(table) + 1 - k]]

RECURSIVE SortValues(_)
SortValues(table) ==
    IF table = <<>> THEN <<>>
    ELSE LET k == FirstInOrder(table)
         IN  <<table[k]>> \o SortValues(Without(table, k))

DropDuplicates_KeepLast(table) ==
    LET kept(k) == \A j \in (k + 1)..Len(table) :
                      \/ table[j].conv # table[k].conv
                      \/ table[j].time # table[k].time
        RECURSIVE keep(_)
        keep(k) == IF k > Len(table) THEN <<>>
                   ELSE (IF kept(k) THEN <<table[k]>> ELSE <<>>) \o keep(k + 1)
    IN  keep(1)

\* drop_duplicates(subset=[conversation, time], keep='first')
DropDuplicates(table) ==
    LET kept(k) == \A j \in 1..(k - 1) :
                      \/ table[j].conv # table[k].conv
                      \/ table[j].time # table[k].time
        RECURSIVE keep(_)
        keep(k) == IF k > Len(table) THEN <<>>
                   ELSE (IF kept(k) THEN <<table[k]>> ELSE <<>>) \o keep(k + 1)
    IN  keep(1)

\* df['Conversation ID'].unique(): in order of first appearance
Unique(table) ==
    LET RECURSIVE seen(_)
        seen(k) ==
            IF k > Len(table) THEN <<>>
            ELSE (IF \A j \in 1..(k - 1) : table[j].conv # table[k].conv
                  THEN <<table[k].conv>> ELSE <<>>) \o seen(k + 1)
    IN  seen(1)

\* Skill.str.contains('|'.join(skill_filters), na=False, case=False)
SkillContains(skill, skill_filters) ==
    /\ skill # NaN
    /\ \E f \in 1..Len(skill_filters) :
           Contains(Lower(skill), Lower(skill_filters[f]))

\* the two conditions on sender and message type
IsBotNormalMessage(row) ==
    /\ LowerName(row.sender) = "bot"
    /\ LowerName(row.mtype) = "normal message"

\* bot_messages of one conversation
BotMessages(conversation_df, config) ==
    IF config.skill_filter # <<>>
    THEN SelectSeq(conversation_df,
                   LAMBDA row : /\ IsBotNormalMessage(row)
                                /\ SkillContains(row.skill,
                                                 config.skill_filter))
    ELSE SelectSeq(conversation_df, IsBotNormalMessage)

\* value_counts(): the texts other than NaN, each with its count
CountOf(bot_messages, message) ==
    Cardinality({k \in 1..Len(bot_messages) :
                    bot_messages[k].text = message})

Messages(bot_messages) ==
    {bot_messages[k].text : k \in 1..Len(bot_messages)} \ {NaN}

IsRepeated_Any(count) == count > 0

IsRepeated(count) == count > 1

RepeatedMessages(bot_messages) ==
    {message \in Messages(bot_messages) :
        IsRepeated(CountOf(bot_messages, message))}

\* the orders in which value_counts() may list the repeated texts: by
\* falling count, texts of equal count in either order
CountOrders(bot_messages) ==
    LET R == RepeatedMessages(bot_messages)
        n == Cardinality(R)
    IN  {o \in [1..n -> R] :
            /\ \A a, b \in 1..n : a # b => o[a] # o[b]
            /\ \A a, b \in 1..n :
                   a < b => CountOf(bot_messages, o[a])
                                >= CountOf(bot_messages, o[b])}

\* bot_messages[bot_messages['TEXT'] == message].iloc[0]
FirstOccurrence(bot_messages, message) ==
    bot_messages[CHOOSE k \in 1..Len(bot_messages) :
                    /\ bot_messages[k].text = message
                    /\ \A j \in 1..(k - 1) :
                           bot_messages[j].text # message]

RepetitionRecord(c, bot_messages, message, config) ==
    LET first_occurrence == FirstOccurrence(bot_messages, message)
    IN  [conversation_id  |-> c,
         message_id       |-> first_occurrence.mid,
         message          |-> message,
         repetition_count |-> CountOf(bot_messages, message),
         skill            |-> IF config.name = "doctors"
                              THEN Some(first_occurrence.skill)
                              ELSE None]

IsEligible_BotOnly(conversation_df, config) ==
    BotMessages(conversation_df, config) # <<>>

\* the conversation counts as eligible
IsEligible(conversation_df, config) ==
    IF config.skill_filter # <<>>
    THEN \E k \in 1..Len(conversation_df) :
             SkillContains(conversation_df[k].skill, config.skill_filter)
    ELSE TRUE

Percentage_FullWhenNone(chats_with_reps, total) ==
    IF total > 0 THEN <<chats_with_reps * 100, total>> ELSE <<100, 1>>

\* chats_with_reps / total_chats * 100 as the fraction <<numerator,
\* denominator>>, 0 when there is no eligible conversation
Percentage(chats_with_reps, total) ==
    IF total > 0 THEN <<chats_with_reps * 100, total>> ELSE <<0, 1>>

\* the state before analyze_department preprocesses the fetched table: rows
\* in any order of time, or in order of time with sent times that repeat
RequestInit(requests, calls, columnSets) ==
    /\ \E r \in requests : df = r[1] /\ pending = r[2]
    /\ call \in calls
    /\ columns \in columnSets
    /\ cleaned_file = None
    /\ raw = df
    /\ department \in Departments
    /\ pc = "preprocess"
    /\ conv_ids = <<>>
    /\ error = None
    /\ keywords = None
    /\ todo = <<>>
    /\ conv_id = 0
    /\ group = <<>>
    /\ i = 0
    /\ first_consumer_message_time = None
    /\ first_response_recorded = FALSE
    /\ sender_name = None
    /\ response_times = <<>>
    /\ first_response_df = None
    /\ subsequent_response_df = None
    /\ repetition_data = <<>>
    /\ chats_with_repetition = {}
    /\ total_chats = 0
    /\ result = None
    /\ results = <<>>
    /\ MetricsIdle
    /\ OthersIdle

\* the repetition analysis of a table with all its columns
RepInit(requests) == RequestInit(requests, {"repetitions"}, {AllColumns})

\* the column whose lookup fails first in sort_values and drop_duplicates
MissingKeyColumn(cols) ==
    IF "Message Sent Time" \notin cols THEN Some("Message Sent Time")
    ELSE IF "Conversation ID" \notin cols THEN Some("Conversation ID")
    ELSE None

KeyErrorOf(column) == [type |-> "KeyError", names |-> {column}]

\* preprocess_data of the repetition analysis, and the entry of
\* get_repetitions
PreprocessData ==
    /\ pc = "preprocess"
    /\ call = "repetitions"
    /\ IF MissingKeyColumn(columns) # None
       THEN /\ error' = Some(KeyErrorOf(MissingKeyColumn(columns)[1]))
            /\ pc' = "failed"
            /\ UNCHANGED <<df, conv_ids, repetition_data,
                           chats_with_repetition, cleaned_file>>
       ELSE /\ df' = DropDuplicates(SortValues(df))
            /\ cleaned_file' = Some(df')
            /\ conv_ids' = Unique(df')
            /\ repetition_data' = <<>>
            /\ chats_with_repetition' = {}
            /\ pc' = "detect"
            /\ UNCHANGED error
    /\ UNCHANGED <<delayVars, department, otherVars, total_chats, result, raw, columns,
                   pending, results, metricVars>>

\* required_columns that are not in df.columns
MissingColumns(cols) == RequiredColumns \ cols

ValueErrorOf(missing_columns) ==
    [type |-> "ValueError", names |-> missing_columns]

\* preprocess_data of the delays analysis, called with a department
PreprocessDelays ==
    /\ pc = "preprocess"
    /\ call = "delays"
    /\ IF MissingKeyColumn(columns) # None
       THEN /\ error' = Some(KeyErrorOf(MissingKeyColumn(columns)[1]))
            /\ pc' = "failed"
            /\ UNCHANGED <<df, cleaned_file>>
       ELSE LET cleaned == DropDuplicates(SortValues(df))
            IN  /\ cleaned_file' = Some(cleaned)
                /\ IF MissingColumns(columns) # {}
                   THEN /\ error' =
                               Some(ValueErrorOf(MissingColumns(columns)))
                        /\ pc' = "failed"
                        /\ UNCHANGED df
                   ELSE /\ df' = cleaned
                        /\ pc' = "cleaned"
                        /\ UNCHANGED error
    /\ UNCHANGED <<conv_ids, delayVars, department, otherVars, repetition_data,
                   chats_with_repetition, total_chats, result, raw, columns,
                   pending, results, metricVars>>

\* one iteration of the first loop over the conversations
DetectConversation ==
    /\ pc = "detect"
    /\ conv_ids # <<>>
    /\ LET conversation_id == Head(conv_ids)
           conversation_df ==
               SelectSeq(df, LAMBDA row : row.conv = conversation_id)
           bot_messages == BotMessages(conversation_df, department)
       IN  \E order \in CountOrders(bot_messages) :
             /\ repetition_data' = repetition_data \o
                    [k \in 1..Len(order) |->
                        RepetitionRecord(conversation_id, bot_messages,
                                         order[k], department)]
             /\ chats_with_repetition' =
                    IF order # <<>>
                    THEN chats_with_repetition \cup {conversation_id}
                    ELSE chats_with_repetition
    /\ conv_ids' = Tail(conv_ids)
    /\ UNCHANGED <<df, pc, error, delayVars, department, otherVars, total_chats, result,
                   runVars>>

\* the first loop is over: total_chats = 0 and the second loop starts
StartCount ==
    /\ pc = "detect"
    /\ conv_ids = <<>>
    /\ total_chats' = 0
    /\ conv_ids' = Unique(df)
    /\ pc' = "count"
    /\ UNCHANGED <<df, error, delayVars, department, otherVars, repetition_data,
                   chats_with_repetition, result, runVars>>

\* one iteration of the second loop
CountConversation ==
    /\ pc = "count"
    /\ conv_ids # <<>>
    /\ LET conversation_df ==
               SelectSeq(df, LAMBDA row : row.conv = Head(conv_ids))
       IN  total_chats' = IF IsEligible(conversation_df, department)
                          THEN total_chats + 1
                          ELSE total_chats
    /\ conv_ids' = Tail(conv_ids)
    /\ UNCHANGED <<df, pc, error, delayVars, department, otherVars, repetition_data,
                   chats_with_repetition, result, runVars>>

\* the statistics and the returned tuple
ReturnRepetitions ==
    /\ pc = "count"
    /\ conv_ids = <<>>
    /\ LET chats_with_reps == Cardinality(chats_with_repetition)
       IN  result' = Some([repetition_data |-> repetition_data,
                           percentage |-> Percentage(chats_with_reps,
                                                     total_chats),
                           chats_with_reps |-> chats_with_reps,
                           total_chats |-> total_chats])
    /\ pc' = "done"
    /\ UNCHANGED <<df, conv_ids, error, delayVars, department, otherVars,
                   repetition_data, chats_with_repetition, total_chats,
                   runVars>>

\* one request
SingleRequests(tables) == {<<t, <<>> >> : t \in tables}

InitRepetitions ==
    RepInit(SingleRequests(Tables(RepCells, MaxRepRows,
                                  {ClockDesc, ClockPairs})))

NextRepetitions ==
    \/ PreprocessData
    \/ DetectConversation
    \/ StartCount
    \/ CountConversation
    \/ ReturnRepetitions

SpecRepetitions == InitRepetitions /\ [][NextRepetitions]_vars

\* the next request: analyze_department runs again, on the next raw table
NextAnalysis ==
    /\ pc = "done"
    /\ result # None
    /\ pending # <<>>
    /\ results' = Append(results, [raw |-> raw, returned |-> result[1]])
    /\ df' = Head(pending)
    /\ raw' = Head(pending)
    /\ pending' = Tail(pending)
    /\ result' = None
    /\ repetition_data' = <<>>
    /\ chats_with_repetition' = {}
    /\ total_chats' = 0
    /\ conv_ids' = <<>>
    /\ pc' = "preprocess"
    /\ UNCHANGED <<error, delayVars, department, otherVars, metricVars, normVars>>

MaxReorderRows == 3

\* a smaller choice of rows for the analysis of one export in two orders
ReorderCells ==
    {RepCell(1, "Bot", "Normal Message", SkillGptD, TextHi),
     RepCell(1, "Bot", "Normal Message", SkillGptD, TextBye),
     RepCell(1, "Bot", "Normal Message", NaN, TextHi),
     RepCell(1, "Consumer", "Normal Message", SkillGptD, TextHi),
     RepCell(2, "Bot", "Normal Message", SkillGptLower, TextHi)}

\* the same rows in another order within each conversation: every place of
\* the table keeps its conversation
Reorderings(table) ==
    {[k \in 1..Len(table) |-> table[p[k]]] :
        p \in {q \in [1..Len(table) -> 1..Len(table)] :
                  /\ \A a, b \in 1..Len(table) : a # b => q[a] # q[b]
                  /\ \A a \in 1..Len(table) :
                         table[q[a]].conv = table[a].conv}}

ReorderedRequests(tables) ==
    UNION {{<<t, <<u>> >> : u \in Reorderings(t)} : t \in tables}

\* the analysis of an export, then of the same export in another row order
InitReorder ==
    RepInit(ReorderedRequests(Tables(ReorderCells, MaxReorderRows,
                                     {ClockDesc, ClockPairs})))

NextReorder == NextRepetitions \/ NextAnalysis

SpecReorder == InitReorder /\ [][NextReorder]_vars

\* the normalizer is run again, on the table it returned
Renormalize ==
    /\ pc \in {"detect", "cleaned"}
    /\ results = <<>>
    /\ results' = <<[raw |-> raw, returned |-> df]>>
    /\ raw' = df
    /\ cleaned_file' = None
    /\ conv_ids' = <<>>
    /\ pc' = "preprocess"
    /\ UNCHANGED <<df, error, delayVars, department, otherVars, repetition_data,
                   chats_with_repetition, total_chats, result, columns,
                   pending, metricVars>>

MaxNormRows == 3

\* both normalizers, on tables in any order of time, with sent times that
\* repeat, and with a required column missing
InitNormalizer ==
    RequestInit(SingleRequests(Tables(ReorderCells, MaxNormRows,
                                      {ClockAsc, ClockDesc, ClockPairs})),
                {"repetitions", "delays"}, ColumnChoices)

NextNormalizer == PreprocessData \/ PreprocessDelays \/ Renormalize

SpecNormalizer == InitNormalizer /\ [][NextNormalizer]_vars

(***************************************************************************)
(* Skill matching outside the repetition detector: the conversations that  *)
(* process_conversations tracks, and calculate_handling_percentage         *)
(* (app/services/delays_service.py)                                        *)
(***************************************************************************)
\* target_skill_lower in conv_skill_lower or conv_skill_lower in
\* target_skill_lower, both made with str(..).lower()
FlexibleMatch(skill, target_skill) ==
    LET conv_skill_lower == Lower(Str(skill))
        target_skill_lower == Lower(Str(target_skill))
    IN  \/ Contains(conv_skill_lower, target_skill_lower)
        \/ Contains(target_skill_lower, conv_skill_lower)

\* the test of process_conversations on one conversation
HasTargetSkill(conv_data, target_skills) ==
    \E f \in 1..Len(target_skills), k \in 1..Len(conv_data) :
        FlexibleMatch(conv_data[k].skill, target_skills[f])

\* group[col].astype(str).str.lower().str.contains(target_skill_lower)
ColumnContains(skill, target_skill) ==
    Contains(Lower(Str(skill)), Lower(Str(target_skill)))

\* has_skill of calculate_handling_percentage
HasSkill(group_rows, target_skills) ==
    \E f \in 1..Len(target_skills), k \in 1..Len(group_rows) :
        ColumnContains(group_rows[k].skill, target_skills[f])

HasAgentInteraction_Never(group_rows) == FALSE

\* group['Agent Name '].notna().any()
HasAgentInteraction(group_rows) ==
    \E k \in 1..Len(group_rows) : group_rows[k].agent # NaN

\* round(x, 2) of the fraction q, in hundredths (no fraction of the model
\* lies halfway between two hundredths)
Round2(q) == (2 * 100 * q[1] + q[2]) \div (2 * q[2])

\* process_conversations is called on the table
CallProcessConversations ==
    /\ pc = "done"
    /\ result # None
    /\ pending = <<>>
    /\ target_skill_conversations' = {}
    /\ conv_ids' = GroupKeys(df)
    /\ pc' = "target"
    /\ UNCHANGED <<df, error, delayVars, department, otherVars, repetition_data,
                   chats_with_repetition, total_chats, result, raw, normVars,
                   pending,
                   results, total_chats_with_skill, fully_bot_conversations,
                   handling_percentage, agent_percentage, summary>>

\* one iteration of its first loop over the conversations
TrackTargetSkill ==
    /\ pc = "target"
    /\ conv_ids # <<>>
    /\ target_skill_conversations' =
           IF HasTargetSkill(SelectSeq(df, LAMBDA row :
                                           row.conv = Head(conv_ids)),
                             department.skill_filter)
           THEN target_skill_conversations \cup {Head(conv_ids)}
           ELSE target_skill_conversations
    /\ conv_ids' = Tail(conv_ids)
    /\ UNCHANGED <<df, pc, error, delayVars, department, otherVars, repetition_data,
                   chats_with_repetition, total_chats, result, raw, normVars,
                   pending,
                   results, total_chats_with_skill, fully_bot_conversations,
                   handling_percentage, agent_percentage, summary>>

\* calculate_handling_percentage is called on the table
CallHandlingPercentage ==
    /\ \/ pc = "target" /\ conv_ids = <<>>
       \/ pc = "cleaned" /\ handling_percentage = None
    /\ total_chats_with_skill' = 0
    /\ fully_bot_conversations' = <<>>
    /\ conv_ids' = GroupKeys(df)
    /\ pc' = "handling"
    /\ UNCHANGED <<df, error, delayVars, department, otherVars, repetition_data,
                   chats_with_repetition, total_chats, result, raw, normVars,
                   pending,
                   results, target_skill_conversations, handling_percentage,
                   agent_percentage, summary>>

\* one iteration of its loop over the conversations
HandleConversation ==
    /\ pc = "handling"
    /\ conv_ids # <<>>
    /\ LET conversation_id == Head(conv_ids)
           group_rows == SelectSeq(df, LAMBDA row : row.conv = conversation_id)
       IN  IF ~HasSkill(group_rows, department.skill_filter)
           THEN UNCHANGED <<total_chats_with_skill, fully_bot_conversations>>
           ELSE /\ total_chats_with_skill' = total_chats_with_skill + 1
                /\ fully_bot_conversations' =
                       IF HasAgentInteraction(group_rows)
                       THEN fully_bot_conversations
                       ELSE Append(fully_bot_conversations, conversation_id)
    /\ conv_ids' = Tail(conv_ids)
    /\ UNCHANGED <<df, pc, error, delayVars, department, otherVars, repetition_data,
                   chats_with_repetition, total_chats, result, raw, normVars,
                   pending,
                   results, target_skill_conversations, handling_percentage,
                   agent_percentage, summary>>

\* the ratio and the returned value
ReturnHandlingPercentage ==
    /\ pc = "handling"
    /\ conv_ids = <<>>
    /\ handling_percentage' =
           Some(Round2(Percentage(Len(fully_bot_conversations),
                                  total_chats_with_skill)))
    /\ pc' = "handled"
    /\ UNCHANGED <<df, conv_ids, error, delayVars, department, otherVars,
                   repetition_data, chats_with_repetition, total_chats,
                   result, raw, normVars,
                   pending, results, target_skill_conversations,
                   total_chats_with_skill, fully_bot_conversations,
                   agent_percentage, summary>>

MaxSkillRows == 3

\* rows whose skills meet the doctors' filter term in different ways
SkillCells ==
    {Cell(1, "Bot", "Normal Message", SkillGptD, NaN),
     Cell(1, "Agent", "Normal Message", SkillGptD, NameAnn),
     Cell(1, "Consumer", "Normal Message", NaN, NaN),
     Cell(2, "Bot", "Normal Message", SkillGpt, NaN),
     Cell(2, "Bot", "Normal Message", SkillGptLower, NaN),
     Cell(2, "Agent", "Normal Message", SkillSales, NameAnn),
     Cell(3, "Bot", "Normal Message", SkillGptLower, NaN)}

\* the repetition analysis, then the two other tests of the skill filter on
\* the same cleaned table
InitSkills ==
    RepInit(SingleRequests(Tables(SkillCells, MaxSkillRows, {ClockAsc})))

NextSkills ==
    \/ NextRepetitions
    \/ CallProcessConversations
    \/ TrackTargetSkill
    \/ CallHandlingPercentage
    \/ HandleConversation
    \/ ReturnHandlingPercentage

SpecSkills == InitSkills /\ [][NextSkills]_vars

\* the delays analysis of the next request
NextDelaysRequest ==
    /\ pc = "handled"
    /\ pending # <<>>
    /\ results' = Append(results, [raw |-> raw,
                                   returned |-> handling_percentage[1]])
    /\ df' = Head(pending)
    /\ raw' = Head(pending)
    /\ pending' = Tail(pending)
    /\ handling_percentage' = None
    /\ cleaned_file' = None
    /\ conv_ids' = <<>>
    /\ pc' = "preprocess"
    /\ UNCHANGED <<error, delayVars, department, otherVars, repetition_data,
                   chats_with_repetition, total_chats, result, columns,
                   target_skill_conversations, total_chats_with_skill,
                   fully_bot_conversations, agent_percentage, summary>>

MaxHandlingRows == 3

\* conversations with and without the doctors' skill, with and without an
\* agent name
HandlingCells ==
    {Cell(1, "Bot", "Normal Message", SkillGptD, NaN),
     Cell(1, "Agent", "Normal Message", SkillGptD, NameAnn),
     Cell(1, "Bot", "Normal Message", SkillSales, NaN),
     Cell(2, "Bot", "Normal Message", SkillGptLower, NaN),
     Cell(2, "Agent", "Normal Message", SkillSales, NameAnn),
     Cell(2, "Bot", "Normal Message", SkillGpt, NaN)}

\* the next export: the same rows and one more conversation, of one bot
\* message with the doctors' skill and no agent name
WithBotConversation(table) ==
    {<<table \o <<[conv   |-> 3,
                   time   |-> 1,
                   sender |-> "Bot",
                   mtype  |-> "Normal Message",
                   skill  |-> k,
                   text   |-> <<>>,
                   mid    |-> Len(table) + 1,
                   agent  |-> NaN]>> >> : k \in {SkillGptD, SkillGptLower}}

GrowingRequests(tables) ==
    UNION {{<<t, q>> : q \in WithBotConversation(t)} : t \in tables}

\* analyze_department_delays up to the handling percentage, for an export
\* and then for the export with one more conversation
InitHandling ==
    RequestInit(GrowingRequests(Tables(HandlingCells, MaxHandlingRows,
                                       {ClockAsc})),
                {"delays"}, {AllColumns})

NextHandling ==
    \/ PreprocessDelays
    \/ CallHandlingPercentage
    \/ HandleConversation
    \/ ReturnHandlingPercentage
    \/ NextDelaysRequest

SpecHandling == InitHandling /\ [][NextHandling]_vars

(***************************************************************************)
(* calculate_agent_intervention_percentage                                 *)
(***************************************************************************)
IsNormalMessage_Any(row) == TRUE

\* df["Message Type"].str.lower() == "normal message"
IsNormalMessage(row) == LowerName(row.mtype) = "normal message"

\* (df_filtered["Sent By"].str.lower() == label).sum()
CountSentBy(df_filtered, label) ==
    Cardinality({k \in 1..Len(df_filtered) :
                    LowerName(df_filtered[k].sender) = label})

\* the whole function, on the cleaned table; the value is in hundredths
CalculateAgentIntervention ==
    /\ pc = "cleaned"
    /\ agent_percentage = None
    /\ agent_percentage' =
           IF "Message Type" \notin columns \/ "Sent By" \notin columns
           THEN Some(0)
           ELSE LET df_filtered == SelectSeq(df, IsNormalMessage)
                    bot_count == CountSentBy(df_filtered, "bot")
                    agent_count == CountSentBy(df_filtered, "agent")
                    total == bot_count + agent_count
                IN  IF Len(df_filtered) = 0 THEN Some(0)
                    ELSE IF total > 0
                         THEN Some(Round2(<<agent_count * 100, total>>))
                         ELSE Some(0)
    /\ UNCHANGED <<df, pc, conv_ids, error, delayVars, department, otherVars,
                   repetition_data, chats_with_repetition, total_chats,
                   result, raw, normVars, pending, results,
                   target_skill_conversations, total_chats_with_skill,
                   fully_bot_conversations, handling_percentage, summary>>

MaxAgentRows == 5

\* rows of every sender, normal messages and others
InterventionCells ==
    {Cell(1, "Bot", "Normal Message", SkillGptD, NaN),
     Cell(1, "Agent", "Normal Message", SkillSales, NameAnn),
     Cell(1, "Consumer", "Normal Message", SkillGptD, NaN),
     Cell(1, "System", "Transfer", SkillGptD, NaN),
     Cell(1, "Agent", "Private Message", SkillGptD, NameAnn)}

\* analyze_department_delays up to the agent intervention percentage
InitIntervention ==
    RequestInit(SingleRequests(Tables(InterventionCells, MaxAgentRows,
                                      {ClockAsc})),
                {"delays"}, {AllColumns})

NextIntervention == PreprocessDelays \/ CalculateAgentIntervention

SpecIntervention == InitIntervention /\ [][NextIntervention]_vars

(***************************************************************************)
(* calculate_summary_stats and format_response_time_with_count             *)
(***************************************************************************)
RECURSIVE Sum(_)
Sum(times) == IF times = <<>> THEN 0 ELSE Head(times) + Sum(Tail(times))

\* the values in rising order
RECURSIVE Ascending(_)
Ascending(times) ==
    IF times = <<>> THEN <<>>
    ELSE LET k == CHOOSE a \in 1..Len(times) :
                      \A b \in 1..Len(times) : times[a] <= times[b]
         IN  <<times[k]>> \o Ascending(Without(times, k))

\* Series.mean(), Series.median(), min() and max(), each after
\* round(float(..), 2), in hundredths
MeanOf(times) == Round2(<<Sum(times), Len(times)>>)

MedianOf(times) ==
    LET s == Ascending(times)
        n == Len(s)
    IN  IF n % 2 = 1 THEN 100 * s[(n + 1) \div 2]
        ELSE 50 * (s[n \div 2] + s[n \div 2 + 1])

MinOf(times) == 100 * Ascending(times)[1]

MaxOf(times) == 100 * Ascending(times)[Len(times)]

IsUnder4Min_All(time) == TRUE

\* response_times < 240
IsUnder4Min(time) == time < 240

\* response_times >= 240
Is4Plus(time) == time >= 240

\* time > 240 in format_response_time_with_count
IsOver4Min(time) == time > 240

\* format_response_time_with_count: the minutes and seconds of the average
\* of all times and the count the string shows, "MM:SS (n msg > 4 Min)"
FormatResponseTimeWithCount(response_times_list) ==
    IF response_times_list = <<>>
    THEN [minutes |-> 0, seconds |-> 0, over_4_min |-> 0]
    ELSE LET total == Sum(response_times_list)
             n == Len(response_times_list)
             minutes == total \div (60 * n)
         IN  [minutes    |-> minutes,
              seconds    |-> (total \div n) - 60 * minutes,
              over_4_min |-> Len(SelectSeq(response_times_list, IsOver4Min))]

\* one entry of the summary
ResponseStats(response_df, message) ==
    IF response_df # <<>>
    THEN LET all_times ==
                 [k \in 1..Len(response_df) |-> response_df[k].latency]
             under_4min ==
                 SelectSeq(all_times, IsUnder4Min)
             some == under_4min # <<>>
         IN  [count |-> Len(response_df),
              count_under_4min |-> Len(under_4min),
              count_4plus |-> Len(SelectSeq(all_times, Is4Plus)),
              avg_response_time |->
                  IF some THEN MeanOf(under_4min) ELSE 0,
              avg_response_time_formatted |->
                  FormatResponseTimeWithCount(all_times),
              median_response_time |->
                  IF some THEN MedianOf(under_4min) ELSE 0,
              max_response_time |-> MaxOf(all_times),
              min_response_time |->
                  IF some THEN MinOf(under_4min) ELSE 0]
    ELSE [count |-> 0,
          count_under_4min |-> 0,
          count_4plus |-> 0,
          message |-> message,
          avg_response_time_formatted |-> FormatResponseTimeWithCount(<<>>)]

\* calculate_summary_stats on the two latency tables
CalculateSummaryStats ==
    /\ pc \in {"done", "saved"}
    /\ todo = <<>>
    /\ first_response_df # None
    /\ subsequent_response_df # None
    /\ summary = None
    /\ summary' =
           Some([first_response |->
                     ResponseStats(first_response_df[1],
                                   "No first responses found"),
                 subsequent_response |->
                     ResponseStats(subsequent_response_df[1],
                                   "No Non initial Responses found")])
    /\ pc' = "summarized"
    /\ UNCHANGED <<df, conv_ids, error, delayVars, department, otherVars,
                   repetition_data, chats_with_repetition, total_chats,
                   result, raw, normVars, pending, results,
                   target_skill_conversations, total_chats_with_skill,
                   fully_bot_conversations, handling_percentage,
                   agent_percentage>>

MaxLatencies == 3

\* latencies on both sides of the four minutes
LatencyValues == {0 - 4, 7, 120, 239, 240, 241, 600}

\* a latency table as the scans return it: in falling order of latency
LatencyTable(times) ==
    [k \in 1..Len(times) |->
        [conv |-> k, sender |-> <<"b","o","t">>, latency |-> times[k],
         mid |-> k, skill |-> Lower(SkillGptD), time |-> 0]]

LatencyTables ==
    {LatencyTable(times) :
        times \in {t \in UNION {[1..n -> LatencyValues] :
                                  n \in 0..MaxLatencies} :
                      \A k \in 1..(Len(t) - 1) : t[k] >= t[k + 1]}}

\* the state of analyze_department_delays when both scans have returned
InitSummary ==
    /\ first_response_df \in {Some(t) : t \in LatencyTables}
    /\ subsequent_response_df \in {Some(t) : t \in LatencyTables}
    /\ df = <<>>
    /\ keywords = None
    /\ call = "subsequent"
    /\ todo = <<>>
    /\ pc = "done"
    /\ conv_ids = <<>>
    /\ conv_id = None
    /\ group = <<>>
    /\ i = 1
    /\ first_consumer_message_time = None
    /\ first_response_recorded = FALSE
    /\ sender_name = None
    /\ response_times = <<>>
    /\ error = None
    /\ department = DepartmentDoctors
    /\ repetition_data = <<>>
    /\ chats_with_repetition = {}
    /\ total_chats = 0
    /\ result = None
    /\ raw = df
    /\ pending = <<>>
    /\ results = <<>>
    /\ MetricsIdle
    /\ OthersIdle
    /\ columns = AllColumns
    /\ cleaned_file = None

NextSummary == CalculateSummaryStats

SpecSummary == InitSummary /\ [][NextSummary]_vars

(***************************************************************************)
(* save_delays_results and _add_average_row: the latency tables as they    *)
(* are written (and uploaded), with their AVERAGE row                      *)
(***************************************************************************)
\* df['Response Time (secs)'] <= 240
IsKeptWithAverage(rec) == rec.latency <= 240

\* _add_average_row: the rows that are kept, and the AVERAGE row with the
\* mean, in hundredths, and the number of "Count: n"
AddAverageRow(table) ==
    IF table = <<>> THEN [rows |-> <<>>, average |-> None]
    ELSE [rows |-> SelectSeq(table, IsKeptWithAverage),
          average |->
              Some([mean |-> MeanOf([k \in 1..Len(table) |->
                                        table[k].latency]),
                    count |-> Len(table)])]

\* save_delays_results: a table without rows is written as it is
SaveDelaysResults ==
    /\ pc = "done"
    /\ todo = <<>>
    /\ first_response_df # None
    /\ subsequent_response_df # None
    /\ output_files' =
           output_files
           \cup {<<"delays_first_response", department.name,
                   AddAverageRow(first_response_df[1])>>,
                 <<"delays_subsequent_response", department.name,
                   AddAverageRow(subsequent_response_df[1])>>}
    /\ pc' = "saved"
    /\ UNCHANGED <<df, conv_ids, error, delayVars, department, segVars,
                   fetchVars, endpoint, upload_to_sheets, sheets_api, export,
                   departments_left, batch_results, errors,
                   successful_analyses, failed_analyses, repetitions_result,
                   delays_result, uploads, log, response, responses, request,
                   repetition_data, chats_with_repetition, total_chats,
                   result, runVars>>

\* the tables are saved and the summary is made; calculate_summary_stats
\* is also called without the files
NextSave ==
    \/ SaveDelaysResults
    \/ CalculateSummaryStats

SpecSave == InitSummary /\ [][NextSave]_vars

(***************************************************************************)
(* The Segmenter: segment_conversation and process_conversations           *)
(* (app/services/delays_service.py).  Transcript lines are text, so that   *)
(* the search for "Consumer:" is computed on the characters.               *)
(***************************************************************************)
skill_name_length_limit == 23

\* a skill with the filter term in front, n characters long
SkillOfLength(n) == [k \in 1..n |-> IF k <= Len(SkillGptD) THEN SkillGptD[k]
                                    ELSE "x"]

\* a skill name of exactly the limit, and one character longer
SkillAtLimit == SkillOfLength(skill_name_length_limit)

SkillOverLimit == SkillOfLength(skill_name_length_limit + 1)

\* a message text that holds the word the segment filter looks for
TextConsumer == <<"C","o","n","s","u","m","e","r",":">>

Identifier == <<"[","I","D","E","N","T","I","F","I","E","R","]"," ">>

ConsumerColon == <<"C","o","n","s","u","m","e","r",":">>

LineBreak == <<"\n">>

Separator ==
    <<"\n","\n","-","-","-"," ",
    "C","O","N","V","E","R","S","A","T","I","O","N"," ",
    "S","E","P","A","R","A","T","O","R"," ","-","-","-","\n","\n">>

LabelBot == <<"B","O","T">>

\* sender.capitalize() of the stripped, lower-cased "Sent By"
Capitalize(sender) ==
    CASE sender = "consumer" -> <<"C","o","n","s","u","m","e","r">>
      [] sender = "bot"      -> <<"B","o","t">>
      [] sender = "agent"    -> <<"A","g","e","n","t">>
      [] OTHER               -> <<"S","y","s","t","e","m">>

\* "if marking and sender in ['agent', 'bot']"
IsMarkedLine(mark, sender) == mark /\ sender \in {"agent", "bot"}

\* the transcript line of a row
Line(row, mark) ==
    LET sender == LowerName(row.sender)
        plain  == Capitalize(sender) \o <<":"," ">> \o Str(row.text)
    IN  IF IsMarkedLine(mark, sender) THEN Identifier \o plain ELSE plain

\* sep.join(parts)
RECURSIVE Join(_, _)
Join(parts, sep) ==
    IF parts = <<>> THEN <<>>
    ELSE IF Len(parts) = 1 THEN parts[1]
    ELSE parts[1] \o sep \o Join(Tail(parts), sep)

\* row["Agent Name "] if sender == "agent" else "BOT"
AgentLabel(row) ==
    IF LowerName(row.sender) = "agent" THEN row.agent ELSE LabelBot

\* mutant: a label never differs from the current one
LabelDiffers_Never(next_agent, agent) == FALSE

\* next_agent != current_agent; a NaN is unequal to every value, itself too
LabelDiffers(next_agent, agent) == next_agent = NaN \/ next_agent # agent

\* the loop over target_skills_lower when last_skill is None
MatchesTargetSkills(skill, target_skills) ==
    \E f \in 1..Len(target_skills) : FlexibleMatch(skill, target_skills[f])

\* len(skill) > skill_name_length_limit
ExceedsLimit(skill) == Len(skill) > skill_name_length_limit

\* len() of a NaN, a float
TypeErrorOf(value) == [type |-> "TypeError", names |-> {value}]

\* process_conversations is called on the table: its first loop starts
InitProcessConversations(tables) ==
    /\ df \in tables
    /\ department = DepartmentDoctors
    /\ call = "segmenter"
    /\ pc = "target"
    /\ conv_ids = GroupKeys(df)
    /\ raw = df
    /\ pending = <<>>
    /\ results = <<>>
    /\ columns = AllColumns
    /\ cleaned_file = None
    /\ error = None
    /\ keywords = None
    /\ todo = <<>>
    /\ conv_id = None
    /\ group = <<>>
    /\ i = 0
    /\ first_consumer_message_time = None
    /\ first_response_recorded = FALSE
    /\ sender_name = None
    /\ response_times = <<>>
    /\ first_response_df = None
    /\ subsequent_response_df = None
    /\ repetition_data = <<>>
    /\ chats_with_repetition = {}
    /\ total_chats = 0
    /\ result = None
    /\ MetricsIdle
    /\ OthersIdle

\* the first loop is over: all_segments = [] and the second loop starts
StartSegmentLoop ==
    /\ call = "segmenter"
    /\ pc = "target"
    /\ conv_ids = <<>>
    /\ all_segments' = <<>>
    /\ conv_ids' = GroupKeys(df)
    /\ pc' = "segment"
    /\ UNCHANGED <<df, error, delayVars, department, routeVars, fetchVars, segments,
                   current_segment, current_agent,
                   first_agent_or_bot_encountered, last_skill, marking,
                   merged_df, repetition_data, chats_with_repetition,
                   total_chats, result, runVars>>

\* one iteration of the second loop up to the call of segment_conversation,
\* whose locals are initialised; a conversation without target skill is
\* skipped
StartConversation ==
    /\ pc = "segment"
    /\ conv_ids # <<>>
    /\ LET c == Head(conv_ids)
       IN  IF c \notin target_skill_conversations
           THEN /\ conv_ids' = Tail(conv_ids)
                /\ UNCHANGED <<pc, conv_id, group, i, segments,
                               current_segment, current_agent,
                               first_agent_or_bot_encountered, last_skill,
                               marking>>
           ELSE /\ conv_id' = Some(c)
                /\ group' = SelectSeq(df, LAMBDA row :
                                /\ row.conv = c
                                /\ row.mtype = "Normal Message")
                /\ i' = 1
                /\ segments' = <<>>
                /\ current_segment' = <<>>
                /\ current_agent' = None
                /\ first_agent_or_bot_encountered' = FALSE
                /\ last_skill' = None
                /\ marking' = FALSE
                /\ pc' = "segment_rows"
                /\ UNCHANGED conv_ids
    /\ UNCHANGED <<df, error, keywords, call, todo,
                   first_consumer_message_time, first_response_recorded,
                   sender_name, response_times, first_response_df,
                   subsequent_response_df, department, routeVars, fetchVars, all_segments,
                   merged_df, repetition_data, chats_with_repetition,
                   total_chats, result, runVars>>

\* one iteration of the loop of segment_conversation
SegmentRow ==
    /\ pc = "segment_rows"
    /\ i <= Len(group)
    /\ LET row    == group[i]
           sender == LowerName(row.sender)
           skill  == row.skill
           fails  == last_skill # None /\ marking /\ skill = NaN
           mark   == IF last_skill = None
                     THEN marking \/ MatchesTargetSkills(
                                         skill, department.skill_filter)
                     ELSE IF marking /\ ExceedsLimit(skill) THEN FALSE
                     ELSE marking
           speaks == sender \in {"agent", "bot"}
           change == /\ speaks
                     /\ first_agent_or_bot_encountered
                     /\ LabelDiffers(AgentLabel(row), current_agent[1])
           flush  == change /\ current_segment # <<>>
           open   == IF flush THEN <<>> ELSE current_segment
       IN  IF fails
           THEN /\ error' = Some(TypeErrorOf(skill))
                /\ pc' = "failed"
                /\ UNCHANGED <<i, segments, current_segment, current_agent,
                               first_agent_or_bot_encountered, last_skill,
                               marking>>
           ELSE /\ marking' = mark
                /\ segments' =
                       IF flush
                       THEN Append(segments,
                                   <<current_agent, last_skill,
                                     current_segment>>)
                       ELSE segments
                /\ current_agent' =
                       IF speaks /\ (~first_agent_or_bot_encountered
                                     \/ change)
                       THEN Some(AgentLabel(row))
                       ELSE current_agent
                /\ first_agent_or_bot_encountered' =
                       (first_agent_or_bot_encountered \/ speaks)
                /\ last_skill' = IF speaks THEN Some(skill) ELSE last_skill
                /\ current_segment' = Append(open, Line(row, mark))
                /\ i' = i + 1
                /\ UNCHANGED <<pc, error>>
    /\ UNCHANGED <<df, conv_ids, keywords, call, todo, conv_id, group,
                   first_consumer_message_time, first_response_recorded,
                   sender_name, response_times, first_response_df,
                   subsequent_response_df, department, routeVars, fetchVars, all_segments,
                   merged_df, repetition_data, chats_with_repetition,
                   total_chats, result, runVars>>

\* a row of all_segments (the customer name is left out)
SegmentRecord(c, segment) ==
    [conv       |-> c,
     last_skill |-> segment[2],
     agent      |-> segment[1],
     messages   |-> Join(segment[3], LineBreak)]

\* the end of segment_conversation (the final segment) and the rest of the
\* iteration of process_conversations: the segments go to all_segments
ReturnSegments ==
    /\ pc = "segment_rows"
    /\ i > Len(group)
    /\ segments' =
           IF current_segment # <<>>
           THEN Append(segments,
                       <<current_agent, last_skill, current_segment>>)
           ELSE segments
    /\ all_segments' =
           all_segments \o
           [k \in 1..Len(segments') |-> SegmentRecord(conv_id[1],
                                                      segments'[k])]
    /\ conv_ids' = Tail(conv_ids)
    /\ pc' = "segment"
    /\ UNCHANGED <<df, error, delayVars, department, routeVars, fetchVars, current_segment,
                   current_agent, first_agent_or_bot_encountered,
                   last_skill, marking, merged_df, repetition_data,
                   chats_with_repetition, total_chats, result, runVars>>

\* Messages.str.contains("Consumer:", na=False)
HasConsumerText(messages) == Contains(messages, ConsumerColon)

\* astype(str) of a label
LabelStr(label) ==
    IF label = None THEN <<"N","o","n","e">> ELSE Str(label[1])

\* Series.unique(): the values in order of first appearance
RECURSIVE UniqueValues(_)
UniqueValues(values) ==
    IF values = <<>> THEN <<>>
    ELSE LET rest == UniqueValues(SubSeq(values, 1, Len(values) - 1))
             last == values[Len(values)]
         IN  IF \E k \in 1..Len(rest) : rest[k] = last THEN rest
             ELSE Append(rest, last)

\* mutant: the labels are joined as they come
JoinedLabels_All(labels) == Join(labels, <<",", " ">>)

\* ', '.join(x.astype(str).unique())
JoinedLabels(labels) == Join(UniqueValues(labels), <<",", " ">>)

\* groupby 'first': the first value that is not null
FirstValid(values) ==
    LET valid == SelectSeq(values, LAMBDA v : v # None /\ v # Some(NaN))
    IN  IF valid = <<>> THEN NaN ELSE valid[1][1]

\* one row of merged_df
MergedRow(c, rows) ==
    [conv       |-> c,
     last_skill |-> FirstValid([k \in 1..Len(rows) |-> rows[k].last_skill]),
     agent      |-> JoinedLabels([k \in 1..Len(rows) |->
                                     LabelStr(rows[k].agent)]),
     messages   |-> Join([k \in 1..Len(rows) |-> rows[k].messages],
                         Separator)]

\* the filters and the aggregation by conversation
Aggregate ==
    /\ pc = "segment"
    /\ conv_ids = <<>>
    /\ LET segmented_df ==
               SelectSeq(all_segments, LAMBDA seg :
                   /\ HasConsumerText(seg.messages)
                   /\ seg.conv \in target_skill_conversations)
           keys == GroupKeys(segmented_df)
       IN  merged_df' =
               Some([k \in 1..Len(keys) |->
                        MergedRow(keys[k],
                                  SelectSeq(segmented_df, LAMBDA seg :
                                                seg.conv = keys[k]))])
    /\ pc' = "segmented"
    /\ UNCHANGED <<df, conv_ids, error, delayVars, department, routeVars, fetchVars, segments,
                   current_segment, current_agent,
                   first_agent_or_bot_encountered, last_skill, marking,
                   all_segments, repetition_data, chats_with_repetition,
                   total_chats, result, runVars>>

SegCell(c, s, k, a, t) ==
    [Cell(c, s, "Normal Message", k, a) EXCEPT !.text = t]

MaxSegRows == 4

\* conversations with lines of the consumer, the bot and agents, an agent
\* without name, a bot message that quotes the word "Consumer:", a row that
\* is no normal message, and a conversation of another skill
SegmentCells ==
    {SegCell(1, "Consumer", SkillGptD, NaN, TextHi),
     SegCell(1, "Bot", SkillGptD, NaN, TextHi),
     SegCell(1, "Bot", SkillGptD, NaN, TextConsumer),
     SegCell(1, "Agent", SkillGptD, NameAnn, TextHi),
     SegCell(1, "Agent", SkillGptD, NaN, TextHi),
     RepCell(1, "System", "Transfer", SkillGptD, TextHi),
     SegCell(2, "Consumer", SkillGptD, NaN, TextBye),
     SegCell(2, "Bot", SkillGptD, NaN, TextBye),
     SegCell(3, "Consumer", SkillSales, NaN, TextHi)}

\* tables in the order of the normalizer: by conversation, then by time
ByConversation(tables) ==
    {t \in tables : \A k \in 1..(Len(t) - 1) : t[k].conv <= t[k + 1].conv}

InitSegmenter ==
    InitProcessConversations(
        ByConversation(Tables(SegmentCells, MaxSegRows, {ClockAsc})))

NextSegmenter ==
    \/ TrackTargetSkill
    \/ StartSegmentLoop
    \/ StartConversation
    \/ SegmentRow
    \/ ReturnSegments
    \/ Aggregate

SpecSegmenter == InitSegmenter /\ [][NextSegmenter]_vars

MaxMarkRows == 3

\* one conversation whose skill changes from row to row: a skill of the
\* filter, another skill, names of the limit and above it, no skill
MarkingCells ==
    {SegCell(1, "Consumer", SkillSales, NaN, TextHi),
     SegCell(1, "Consumer", SkillGptD, NaN, TextHi),
     SegCell(1, "Consumer", SkillOverLimit, NaN, TextHi),
     SegCell(1, "Bot", SkillGptD, NaN, TextHi),
     SegCell(1, "Bot", SkillSales, NaN, TextHi),
     SegCell(1, "Bot", SkillOverLimit, NaN, TextHi),
     SegCell(1, "Bot", SkillAtLimit, NaN, TextHi),
     SegCell(1, "Bot", NaN, NaN, TextHi)}

InitMarking ==
    InitProcessConversations(Tables(MarkingCells, MaxMarkRows, {ClockAsc}))

SpecMarking == InitMarking /\ [][NextSegmenter]_vars

(***************************************************************************)
(* The API functions                                                       *)
(*                                                                         *)
(* analyze_department, analyze_all_departments, analyze_combined and the   *)
(* delays endpoint.  The repetition analysis inside them runs as the       *)
(* actions PreprocessData .. ReturnRepetitions above.  The date of the     *)
(* analysis is not part of the state: every request is for one date.       *)
(***************************************************************************)
\* DEPARTMENT_CONFIG.keys(), in the order of the dictionary
DepartmentKeys ==
    <<"applicants", "doctors", "mv_resolvers", "cc_sales", "cc_resolvers",
      "delighters", "mv_sales">>

\* the filter term of a department other than doctors: no row of the
\* exports below has a skill that matches it
SkillGptOther == <<"G","P","T","_","O">>

\* DEPARTMENT_CONFIG[name], as far as the analysis reads it
DEPARTMENT_CONFIG(name) ==
    [name |-> name,
     skill_filter |-> IF name = "doctors" THEN <<SkillGptD>>
                      ELSE <<SkillGptOther>>]

\* the raw file after fetch_data: fetch_data returned False, or it wrote the
\* text it downloaded: no line at all, or the header line and the rows
ExportFailed == [fetched |-> FALSE, header |-> None, rows |-> <<>>]

ExportBlank == [fetched |-> TRUE, header |-> None, rows |-> <<>>]

ExportOf(cols, table) ==
    [fetched |-> TRUE, header |-> Some(cols), rows |-> table]

ExportEmpty == ExportOf(AllColumns, <<>>)

MaxRouteRows == 2

\* the rows of the exports: every cell is present
RouteCells ==
    {RepCell(1, "Bot", "Normal Message", SkillGptD, TextHi),
     RepCell(1, "Consumer", "Normal Message", SkillGptD, TextHi),
     RepCell(2, "Bot", "Normal Message", SkillGptD, TextBye)}

RouteTables == Tables(RouteCells, MaxRouteRows, {ClockDesc})

\* a conversation whose bot says the same text twice
RepeatingTable ==
    MakeTable(<<RepCell(1, "Bot", "Normal Message", SkillGptD, TextHi),
                RepCell(1, "Bot", "Normal Message", SkillGptD, TextHi)>>,
              ClockDesc)

\* what a fetch can leave behind: for one department every export, with or
\* without its time column; for each department of a batch one of three
Exports(function) ==
    IF function = "analyze_all_departments"
    THEN {ExportFailed, ExportEmpty, ExportOf(AllColumns, RepeatingTable)}
    ELSE {ExportFailed, ExportBlank}
         \cup {ExportOf(AllColumns, t) : t \in RouteTables}
         \cup {ExportOf(AllColumns \ {"Message Sent Time"}, RepeatingTable)}

\* df.empty of the table read_csv makes of the file
IsEmpty(table) == table = <<>>

\* the answers of Google Sheets: the sheet is written, the call reports
\* failure, or there are no credentials and get_sheets_service raises
SheetsAnswers == {"ok", "refused", "unavailable"}

RuntimeErrorOf(cause) == [type |-> "RuntimeError", cause |-> cause]

\* pd.read_csv of a file without a header line
EmptyDataError == [type |-> "EmptyDataError", names |-> {}]

FetchError == [type |-> "FetchFailed", names |-> {}]

\* the call of the delays endpoint passes no df
TypeErrorMissingDf == [type |-> "TypeError", names |-> {"df"}]

\* the state in which a request arrives: at the router, or at one of the
\* functions
Arrival(functions, names, answers, requests, at) ==
    /\ request \in requests
    /\ endpoint \in functions
    /\ department \in {DEPARTMENT_CONFIG(n) : n \in names}
    /\ upload_to_sheets \in BOOLEAN
    /\ sheets_api \in answers
    /\ export = None
    /\ departments_left = <<>>
    /\ batch_results = <<>>
    /\ errors = <<>>
    /\ successful_analyses = 0
    /\ failed_analyses = 0
    /\ repetitions_result = None
    /\ delays_result = None
    /\ output_files = {}
    /\ uploads = <<>>
    /\ log = <<>>
    /\ response = None
    /\ responses = <<>>
    /\ FetchIdle
    /\ SegmenterIdle
    /\ MetricsIdle
    /\ df = <<>>
    /\ raw = <<>>
    /\ columns = AllColumns
    /\ cleaned_file = None
    /\ pending = <<>>
    /\ results = <<>>
    /\ call = "repetitions"
    /\ pc = at
    /\ conv_ids = <<>>
    /\ error = None
    /\ keywords = None
    /\ todo = <<>>
    /\ conv_id = 0
    /\ group = <<>>
    /\ i = 0
    /\ first_consumer_message_time = None
    /\ first_response_recorded = FALSE
    /\ sender_name = None
    /\ response_times = <<>>
    /\ first_response_df = None
    /\ subsequent_response_df = None
    /\ repetition_data = <<>>
    /\ chats_with_repetition = {}
    /\ total_chats = 0
    /\ result = None

\* the state in which a call of one of the functions begins
RouteInit(functions, names, answers) ==
    Arrival(functions, names, answers, {None}, "route")

\* what the API functions leave alone
idleVars == <<conv_ids, delayVars, segVars, fetchVars, repetition_data,
              chats_with_repetition, total_chats, cleaned_file, pending,
              results, metricVars>>

\* the locals of analyze_all_departments
batchVars == <<departments_left, batch_results, errors,
               successful_analyses, failed_analyses, log>>

\* the request
requestVars == <<endpoint, upload_to_sheets, sheets_api, responses, request>>

\* the endpoint of one department and analyze_combined check the name and
\* enter their try block
EnterDepartment ==
    /\ pc = "route"
    /\ endpoint \in {"analyze_department", "analyze_combined"}
    /\ pc' = "fetch"
    /\ UNCHANGED <<idleVars, batchVars, requestVars, df, raw, columns,
                   result, error, department, export, repetitions_result,
                   delays_result, output_files, uploads, response>>

\* analyze_all_departments: the lists and counters before the loop
EnterBatch ==
    /\ pc = "route"
    /\ endpoint = "analyze_all_departments"
    /\ departments_left' = DepartmentKeys
    /\ batch_results' = <<>>
    /\ errors' = <<>>
    /\ successful_analyses' = 0
    /\ failed_analyses' = 0
    /\ pc' = "loop"
    /\ UNCHANGED <<idleVars, requestVars, df, raw, columns, result, error,
                   department, export, repetitions_result, delays_result,
                   output_files, uploads, response, log>>

\* one iteration of the loop begins: analyze_department is called
NextDepartment ==
    /\ pc = "loop"
    /\ departments_left # <<>>
    /\ department' = DEPARTMENT_CONFIG(Head(departments_left))
    /\ departments_left' = Tail(departments_left)
    /\ log' = Append(log, Head(departments_left))
    /\ error' = None
    /\ result' = None
    /\ repetitions_result' = None
    /\ pc' = "fetch"
    /\ UNCHANGED <<idleVars, requestVars, df, raw, columns, export,
                   batch_results, errors, successful_analyses,
                   failed_analyses, delays_result, output_files, uploads,
                   response>>

\* the table a repeated request finds: the export of the same department and
\* date as before
Fetchable ==
    IF responses = <<>> THEN Exports(endpoint)
    ELSE {responses[Len(responses)].export}

\* AnalysisResult of an empty table
EmptyResult(name) ==
    [department |-> name,
     total_conversations |-> 0,
     conversations_with_repetitions |-> 0,
     repetition_percentage |-> 0,
     repetitions |-> <<>>,
     message |-> "NO DATA FOUND"]

\* analyze_department: fetch_data, read_csv and the test of df.empty
FetchData ==
    /\ pc = "fetch"
    /\ endpoint \in {"analyze_department", "analyze_all_departments"}
    /\ \E e \in Fetchable :
         /\ export' = Some(e)
         /\ IF ~e.fetched
            THEN /\ error' = Some(FetchError)
                 /\ pc' = "failed"
                 /\ UNCHANGED <<df, raw, columns, repetitions_result>>
            ELSE IF e.header = None
            THEN /\ error' = Some(EmptyDataError)
                 /\ pc' = "failed"
                 /\ UNCHANGED <<df, raw, columns, repetitions_result>>
            ELSE IF IsEmpty(e.rows)
            THEN /\ repetitions_result' = Some(EmptyResult(department.name))
                 /\ pc' = "returned"
                 /\ UNCHANGED <<df, raw, columns, error>>
            ELSE /\ df' = e.rows
                 /\ raw' = e.rows
                 /\ columns' = e.header[1]
                 /\ pc' = "preprocess"
                 /\ UNCHANGED <<error, repetitions_result>>
    /\ UNCHANGED <<idleVars, batchVars, requestVars, result, department,
                   delays_result, output_files, uploads, response>>

\* the except clause of the analysis functions: any exception leaves as a
\* RuntimeError
RaiseRuntimeError ==
    /\ pc = "failed"
    /\ endpoint # "none"
    /\ error' = Some(RuntimeErrorOf(error[1]))
    /\ pc' = "raised"
    /\ UNCHANGED <<idleVars, batchVars, requestVars, df, raw, columns,
                   result, department, export, repetitions_result,
                   delays_result, output_files, uploads, response>>

\* the exception that leaves the try block around an upload
UploadError_Escapes(answer) ==
    IF answer = "unavailable"
    THEN Some([type |-> "ValueError", names |-> {"credentials"}])
    ELSE None

UploadError(answer) == None

\* the record of one upload that was asked for
Upload(sheet, name, answer) ==
    [sheet |-> sheet, department |-> name, created |-> answer = "ok"]

\* AnalysisResult made of the tuple of get_repetitions
AnalysisResultOf(name, tuple) ==
    [department |-> name,
     total_conversations |-> tuple.total_chats,
     conversations_with_repetitions |-> tuple.chats_with_reps,
     repetition_percentage |-> Round2(tuple.percentage),
     repetitions |-> tuple.repetition_data,
     message |-> IF tuple.repetition_data # <<>>
                 THEN "TOTAL REPETITIONS" ELSE "NO REPETITIONS FOUND"]

\* analyze_department after get_repetitions: save_results, the upload and
\* the AnalysisResult
SaveAndUpload ==
    /\ pc = "done"
    /\ endpoint \in {"analyze_department", "analyze_all_departments"}
    /\ result # None
    /\ output_files' = output_files \cup {<<"repetitions", department.name>>}
    /\ uploads' = IF upload_to_sheets
                  THEN Append(uploads, Upload("repetitions", department.name,
                                              sheets_api))
                  ELSE uploads
    /\ IF upload_to_sheets /\ UploadError(sheets_api) # None
       THEN /\ error' = UploadError(sheets_api)
            /\ pc' = "failed"
            /\ UNCHANGED repetitions_result
       ELSE /\ repetitions_result' =
                   Some(AnalysisResultOf(department.name, result[1]))
            /\ pc' = "returned"
            /\ UNCHANGED error
    /\ UNCHANGED <<idleVars, batchVars, requestVars, df, raw, columns,
                   result, department, export, delays_result, response>>

\* the endpoint of one department returns the result or raises HTTP 500
RespondDepartment ==
    /\ pc \in {"returned", "raised"}
    /\ endpoint = "analyze_department"
    /\ response' =
           IF pc = "returned"
           THEN Some([status |-> 200, body |-> repetitions_result[1]])
           ELSE Some([status |-> 500, detail |-> error[1]])
    /\ pc' = "responded"
    /\ UNCHANGED <<idleVars, batchVars, requestVars, df, raw, columns,
                   result, error, department, export, repetitions_result,
                   delays_result, output_files, uploads>>

\* analyze_all_departments: the call returned
CollectResult ==
    /\ pc = "returned"
    /\ endpoint = "analyze_all_departments"
    /\ batch_results' = Append(batch_results, repetitions_result[1])
    /\ successful_analyses' = successful_analyses + 1
    /\ pc' = "loop"
    /\ UNCHANGED <<idleVars, requestVars, df, raw, columns, result, error,
                   department, export, departments_left, errors,
                   failed_analyses, log, repetitions_result, delays_result,
                   output_files, uploads, response>>

ErrorResponse(name, e) ==
    [error |-> "AnalysisError", department |-> name, detail |-> e]

AfterError_Abort(keys) == <<>>

\* the keys the loop still visits after the except clause in its body
AfterError(keys) == keys

\* analyze_all_departments: the call raised
CollectError ==
    /\ pc = "raised"
    /\ endpoint = "analyze_all_departments"
    /\ errors' = Append(errors, ErrorResponse(department.name, error[1]))
    /\ failed_analyses' = failed_analyses + 1
    /\ departments_left' = AfterError(departments_left)
    /\ pc' = "loop"
    /\ UNCHANGED <<idleVars, requestVars, df, raw, columns, result, error,
                   department, export, batch_results,
                   successful_analyses, log, repetitions_result,
                   delays_result, output_files, uploads, response>>

RECURSIVE SumOf(_, _)
SumOf(rs, field) ==
    IF rs = <<>> THEN 0 ELSE Head(rs)[field] + SumOf(Tail(rs), field)

\* summary_statistics of the batch, without the breakdown by department
SummaryStatistics(rs) ==
    LET total_conversations == SumOf(rs, "total_conversations")
        total_with_reps == SumOf(rs, "conversations_with_repetitions")
    IN  [total_conversations |-> total_conversations,
         total_with_repetitions |-> total_with_reps,
         overall_percentage |->
             Round2(Percentage(total_with_reps, total_conversations))]

BatchAnalysisResult ==
    [total_departments |-> Len(DepartmentKeys),
     successful_analyses |-> successful_analyses,
     failed_analyses |-> failed_analyses,
     results |-> batch_results,
     errors |-> errors,
     summary_statistics |-> SummaryStatistics(batch_results)]

\* analyze_all_departments after the loop
ReturnBatch ==
    /\ pc = "loop"
    /\ departments_left = <<>>
    /\ response' =
           IF failed_analyses > 0 /\ successful_analyses = 0
           THEN Some([status |-> 500, detail |-> errors])
           ELSE Some([status |-> 200, body |-> BatchAnalysisResult])
    /\ pc' = "responded"
    /\ UNCHANGED <<idleVars, batchVars, requestVars, df, raw, columns,
                   result, error, department, export, repetitions_result,
                   delays_result, output_files, uploads>>

NoData == [status |-> "NO_DATA"]

\* analyze_combined: fetch_data, read_csv and the test of df.empty
FetchCombined ==
    /\ pc = "fetch"
    /\ endpoint = "analyze_combined"
    /\ \E e \in Fetchable :
         /\ export' = Some(e)
         /\ IF ~e.fetched
            THEN /\ error' = Some(RuntimeErrorOf(FetchError))
                 /\ pc' = "raised"
                 /\ UNCHANGED <<df, raw, columns, response>>
            ELSE IF e.header = None
            THEN /\ error' = Some(EmptyDataError)
                 /\ pc' = "raised"
                 /\ UNCHANGED <<df, raw, columns, response>>
            ELSE IF IsEmpty(e.rows)
            THEN /\ response' =
                        Some([status |-> 200,
                              body |-> [department |-> department.name,
                                        status |-> "NO_DATA",
                                        repetitions_analysis |-> NoData,
                                        delays_analysis |-> NoData]])
                 /\ pc' = "responded"
                 /\ UNCHANGED <<df, raw, columns, error>>
            ELSE /\ df' = e.rows
                 /\ raw' = e.rows
                 /\ columns' = e.header[1]
                 /\ pc' = "preprocess"
                 /\ UNCHANGED <<error, response>>
    /\ UNCHANGED <<idleVars, batchVars, requestVars, result, department,
                   repetitions_result, delays_result, output_files,
                   uploads>>

\* analyze_department_with_data after get_repetitions
ReturnWithData ==
    /\ pc = "done"
    /\ endpoint = "analyze_combined"
    /\ result # None
    /\ IF result[1].repetition_data = <<>>
       THEN /\ repetitions_result' =
                   Some([AnalysisResultOf(department.name, result[1])
                             EXCEPT !.conversations_with_repetitions = 0,
                                    !.repetition_percentage = 0])
            /\ pc' = "delays"
            /\ UNCHANGED <<output_files, uploads, error>>
       ELSE /\ output_files' =
                   output_files \cup {<<"repetitions", department.name>>}
            /\ uploads' =
                   IF upload_to_sheets
                   THEN Append(uploads, Upload("repetitions",
                                               department.name, sheets_api))
                   ELSE uploads
            /\ IF upload_to_sheets /\ UploadError(sheets_api) # None
               THEN /\ error' = UploadError(sheets_api)
                    /\ pc' = "failed"
                    /\ UNCHANGED repetitions_result
               ELSE /\ repetitions_result' =
                           Some(AnalysisResultOf(department.name, result[1]))
                    /\ pc' = "delays"
                    /\ UNCHANGED error
    /\ UNCHANGED <<idleVars, batchVars, requestVars, df, raw, columns,
                   result, department, export, delays_result, response>>

\* the dictionary analyze_department_delays returns for a table, as far as
\* the combined result reads it apart from the statistics of the latency
\* scans: the status and the number of conversations
DelaysResult(table) ==
    IF IsEmpty(table) THEN [status |-> "NO_DATA", total_conversations |-> None]
    ELSE [status |-> "SUCCESS",
          total_conversations |->
              Some(Len(Unique(DropDuplicates(SortValues(table)))))]

\* analyze_department_delays on a copy of the table read_csv returned
AnalyzeDelays ==
    /\ pc = "delays"
    /\ IF MissingColumns(columns) # {}
       THEN /\ error' =
                   Some(RuntimeErrorOf(ValueErrorOf(MissingColumns(columns))))
            /\ pc' = "raised"
            /\ UNCHANGED <<delays_result, output_files, uploads>>
       ELSE /\ delays_result' = Some(DelaysResult(raw))
            /\ output_files' =
                   IF IsEmpty(raw) THEN output_files
                   ELSE output_files \cup {<<"delays", department.name>>}
            /\ uploads' =
                   IF upload_to_sheets /\ ~IsEmpty(raw)
                   THEN Append(uploads, Upload("delays", department.name,
                                               sheets_api))
                   ELSE uploads
            /\ pc' = "summary_sheet"
            /\ UNCHANGED error
    /\ UNCHANGED <<idleVars, batchVars, requestVars, df, raw, columns,
                   result, department, export, repetitions_result,
                   response>>

\* summary_data of the combined analysis
SummaryData ==
    [total_conversations |-> delays_result[1].total_conversations,
     repetition_percentage |->
         <<repetitions_result[1].repetition_percentage,
           repetitions_result[1].conversations_with_repetitions>>]

\* the "created" entry of the combined result
Created_Never(requested, answer) == FALSE

Created(requested, answer) == requested

\* analyze_combined: the summary sheet and the combined result
RespondCombined ==
    /\ pc = "summary_sheet"
    /\ uploads' = IF upload_to_sheets
                  THEN Append(uploads, Upload("summary", department.name,
                                              sheets_api))
                  ELSE uploads
    /\ response' =
           IF upload_to_sheets /\ UploadError(sheets_api) # None
           THEN Some([status |-> 500, detail |-> UploadError(sheets_api)[1]])
           ELSE
           Some([status |-> 200,
                 body |-> [department |-> department.name,
                           status |-> "SUCCESS",
                           repetitions_analysis |->
                               [repetitions_result[1]
                                    EXCEPT !.repetitions =
                                        Len(repetitions_result[1]
                                                .repetitions)],
                           delays_analysis |-> delays_result[1],
                           summary_sheet |->
                               [created |-> Created(upload_to_sheets,
                                                    sheets_api),
                                data |-> SummaryData]]])
    /\ pc' = "responded"
    /\ UNCHANGED <<idleVars, batchVars, requestVars, df, raw, columns,
                   result, error, department, export, repetitions_result,
                   delays_result, output_files>>

\* analyze_combined: the except clause of the route
RespondCombinedError ==
    /\ pc = "raised"
    /\ endpoint = "analyze_combined"
    /\ response' = Some([status |-> 500, detail |-> error[1]])
    /\ pc' = "responded"
    /\ UNCHANGED <<idleVars, batchVars, requestVars, df, raw, columns,
                   result, error, department, export, repetitions_result,
                   delays_result, output_files, uploads>>

\* the delays endpoint: it calls analyze_department_delays without a table
DelaysEndpoint ==
    /\ pc = "route"
    /\ endpoint = "delays"
    /\ error' = Some(TypeErrorMissingDf)
    /\ response' = Some([status |-> 500, detail |-> TypeErrorMissingDf])
    /\ pc' = "responded"
    /\ UNCHANGED <<idleVars, batchVars, requestVars, df, raw, columns,
                   result, department, export, repetitions_result,
                   delays_result, output_files, uploads>>

MaxRequests == 2

\* the request is served; the same request arrives again, with uploads
\* switched off
NextRequest ==
    /\ pc = "responded"
    /\ endpoint \in {"analyze_department", "analyze_combined", "delays"}
    /\ Len(responses) + 1 < MaxRequests
    /\ responses' = Append(responses,
                           [export |-> IF export = None THEN ExportFailed
                                       ELSE export[1],
                            upload_to_sheets |-> upload_to_sheets,
                            sheets_api |-> sheets_api,
                            uploads |-> uploads,
                            response |-> response[1]])
    /\ upload_to_sheets' = FALSE
    /\ export' = None
    /\ error' = None
    /\ result' = None
    /\ repetitions_result' = None
    /\ delays_result' = None
    /\ uploads' = <<>>
    /\ response' = None
    /\ repetition_data' = <<>>
    /\ chats_with_repetition' = {}
    /\ total_chats' = 0
    /\ pc' = "route"
    /\ UNCHANGED <<conv_ids, delayVars, segVars, fetchVars, cleaned_file, pending,
                   results, metricVars, batchVars, endpoint, sheets_api,
                   request, df, raw, columns, department, output_files>>

\* requests for one department: its repetition analysis, its combined
\* analysis, its delays analysis
InitCalls ==
    RouteInit({"analyze_department", "analyze_combined", "delays"},
              {"doctors", "cc_sales"}, SheetsAnswers)

NextCalls ==
    \/ EnterDepartment
    \/ FetchData
    \/ FetchCombined
    \/ PreprocessData
    \/ DetectConversation
    \/ StartCount
    \/ CountConversation
    \/ ReturnRepetitions
    \/ RaiseRuntimeError
    \/ SaveAndUpload
    \/ ReturnWithData
    \/ AnalyzeDelays
    \/ RespondDepartment
    \/ RespondCombined
    \/ RespondCombinedError
    \/ DelaysEndpoint
    \/ NextRequest

SpecCalls == InitCalls /\ [][NextCalls]_vars

\* a request for the analysis of all departments
InitBatch ==
    RouteInit({"analyze_all_departments"}, {"applicants"},
              {"ok", "unavailable"})

NextBatch ==
    \/ EnterBatch
    \/ NextDepartment
    \/ FetchData
    \/ PreprocessData
    \/ DetectConversation
    \/ StartCount
    \/ CountConversation
    \/ ReturnRepetitions
    \/ RaiseRuntimeError
    \/ SaveAndUpload
    \/ CollectResult
    \/ CollectError
    \/ ReturnBatch

SpecBatch == InitBatch /\ [][NextBatch]_vars

(***************************************************************************)
(* The router: a request is served by the first route, in the order of     *)
(* declaration, whose method and path match                                *)
(***************************************************************************)
\* a path parameter: it matches any one segment
Param == "{department}"

\* a route: its method and path, the API function its handler runs, and the
\* department the handler passes when the path has no parameter
RouteTo(method, pattern, function, name) ==
    [method |-> method, pattern |-> pattern, function |-> function,
     name |-> name]

\* the routes of the application in the order of their declaration: the
\* delays router is included before the first route of routes.py
Routes ==
    <<RouteTo("POST", <<"delays", "analyze", Param>>, "delays", None),
      RouteTo("GET", <<"delays", "departments">>, "info", None),
      RouteTo("GET", <<>>, "info", None),
      RouteTo("GET", <<"health">>, "info", None),
      RouteTo("GET", <<"departments">>, "info", None),
      RouteTo("POST", <<"analyze", Param>>, "analyze_department", None),
      RouteTo("POST", <<"analyze", "all">>, "analyze_all_departments", None),
      RouteTo("POST", <<"analyze", "applicants">>, "analyze_department",
              Some("applicants")),
      RouteTo("POST", <<"analyze", "doctors">>, "analyze_department",
              Some("doctors")),
      RouteTo("POST", <<"analyze", "mv_resolvers">>, "analyze_department",
              Some("mv_resolvers")),
      RouteTo("POST", <<"analyze", "cc_sales">>, "analyze_department",
              Some("cc_sales")),
      RouteTo("POST", <<"analyze", "combined", Param>>, "analyze_combined",
              None),
      RouteTo("POST", <<"analyze", "combined", "applicants">>,
              "analyze_combined", Some("applicants")),
      RouteTo("POST", <<"analyze", "combined", "doctors">>,
              "analyze_combined", Some("doctors")),
      RouteTo("POST", <<"analyze", "combined", "mv_resolvers">>,
              "analyze_combined", Some("mv_resolvers")),
      RouteTo("POST", <<"analyze", "combined", "cc_sales">>,
              "analyze_combined", Some("cc_sales"))>>

\* the path of a request matches the path of a route
PathMatches(pattern, path) ==
    /\ Len(pattern) = Len(path)
    /\ \A k \in 1..Len(path) : pattern[k] = Param \/ pattern[k] = path[k]

\* the value of the path parameter
ParamOf(pattern, path) ==
    LET k == CHOOSE j \in 1..Len(pattern) : pattern[j] = Param
    IN  path[k]

\* the first route that matches the request in full, if there is one
FirstMatch(req) ==
    LET full == {k \in 1..Len(Routes) :
                    /\ Routes[k].method = req.method
                    /\ PathMatches(Routes[k].pattern, req.path)}
    IN  IF full = {} THEN None
        ELSE Some(CHOOSE k \in full : \A j \in full : k <= j)

\* the answer to a request that no route serves
NoRoute(req) ==
    IF \E k \in 1..Len(Routes) : PathMatches(Routes[k].pattern, req.path)
    THEN [status |-> 405, detail |-> "Method Not Allowed"]
    ELSE [status |-> 404, detail |-> "Not Found"]

UnknownDepartment(name) ==
    [status |-> 400, detail |-> [unknown |-> name]]

IsDepartment(name) ==
    \E k \in 1..Len(DepartmentKeys) : DepartmentKeys[k] = name

\* the router hands the request to a handler, which checks the name of the
\* department if it takes one
Dispatch ==
    /\ pc = "request"
    /\ LET req == request[1]
           match == FirstMatch(req)
       IN  IF match = None
           THEN /\ response' = Some(NoRoute(req))
                /\ pc' = "responded"
                /\ UNCHANGED <<endpoint, department>>
           ELSE LET route == Routes[match[1]]
                    takes == route.name # None
                             \/ \E k \in 1..Len(route.pattern) :
                                    route.pattern[k] = Param
                    name  == IF route.name # None THEN route.name[1]
                             ELSE ParamOf(route.pattern, req.path)
                IN  /\ endpoint' = route.function
                    /\ IF route.function = "info"
                       THEN /\ response' = Some([status |-> 200,
                                                 body |-> "info"])
                            /\ pc' = "responded"
                            /\ UNCHANGED department
                       ELSE IF ~takes
                       THEN /\ pc' = "route"
                            /\ UNCHANGED <<response, department>>
                       ELSE IF ~IsDepartment(name)
                       THEN /\ response' = Some(UnknownDepartment(name))
                            /\ pc' = "responded"
                            /\ UNCHANGED department
                       ELSE /\ department' = DEPARTMENT_CONFIG(name)
                            /\ pc' = "route"
                            /\ UNCHANGED response
    /\ UNCHANGED <<idleVars, batchVars, upload_to_sheets, sheets_api,
                   responses, request, df, raw, columns, result, error,
                   export, repetitions_result, delays_result, output_files,
                   uploads>>

Request(method, path) == [method |-> method, path |-> path]

PostAnalyzeAll == Request("POST", <<"analyze", "all">>)

\* requests for the batch, for departments with and without configuration,
\* for the combined and the delays analysis, and for no route at all
Requests ==
    {Some(PostAnalyzeAll),
     Some(Request("POST", <<"analyze", "doctors">>)),
     Some(Request("POST", <<"analyze", "payroll">>)),
     Some(Request("POST", <<"analyze", "combined", "cc_sales">>)),
     Some(Request("POST", <<"delays", "analyze", "doctors">>)),
     Some(Request("POST", <<"delays", "analyze", "payroll">>)),
     Some(Request("POST", <<"analyze">>)),
     Some(Request("GET", <<"analyze", "all">>)),
     Some(Request("GET", <<"health">>))}

InitRouter ==
    Arrival({"none"}, {"applicants"}, SheetsAnswers, Requests, "request")

\* no request gets to analyze_all_departments, whose actions are left out
NextRouter ==
    \/ Dispatch
    \/ EnterDepartment
    \/ FetchData
    \/ FetchCombined
    \/ PreprocessData
    \/ DetectConversation
    \/ StartCount
    \/ CountConversation
    \/ ReturnRepetitions
    \/ RaiseRuntimeError
    \/ SaveAndUpload
    \/ ReturnWithData
    \/ AnalyzeDelays
    \/ RespondDepartment
    \/ RespondCombined
    \/ RespondCombinedError
    \/ DelaysEndpoint

SpecRouter == InitRouter /\ [][NextRouter]_vars

(***************************************************************************)
(* analyze_department_delays from preprocess_data to the summary: the      *)
(* latency functions are called on the cleaned table with the department's *)
(* skill filter as keywords                                                *)
(***************************************************************************)
CallLatencyScans ==
    /\ pc = "cleaned"
    /\ first_response_df = None
    /\ keywords' = Some(department.skill_filter)
    /\ call' = "first"
    /\ todo' = <<"subsequent">>
    /\ conv_ids' = GroupKeys(df)
    /\ conv_id' = None
    /\ group' = <<>>
    /\ i' = 1
    /\ first_consumer_message_time' = None
    /\ first_response_recorded' = FALSE
    /\ sender_name' = None
    /\ response_times' = <<>>
    /\ pc' = "groups"
    /\ UNCHANGED <<df, error, first_response_df, subsequent_response_df,
                   repVars>>

MaxPipeRows == 4

\* two conversations of a consumer and a bot, an agent and a transfer
PipeCells ==
    {Cell(1, "Consumer", "Normal Message", SkillGptD, NaN),
     Cell(1, "Bot", "Normal Message", SkillGptD, NaN),
     Cell(1, "Agent", "Normal Message", SkillGptD, NameAnn),
     Cell(1, "System", "Transfer", SkillGptD, NaN),
     Cell(2, "Consumer", "Normal Message", SkillGptD, NaN),
     Cell(2, "Bot", "Normal Message", SkillSales, NaN)}

\* exports in falling order of time, or with sent times that repeat
InitPipeline ==
    RequestInit(SingleRequests(Tables(PipeCells, MaxPipeRows,
                                      {ClockDesc, ClockPairs})),
                {"delays"}, {AllColumns})

NextPipeline ==
    \/ PreprocessDelays
    \/ CallLatencyScans
    \/ NextGroup
    \/ FirstResponseRow
    \/ SubsequentResponseRow
    \/ ReturnTable
    \/ NextCall
    \/ CalculateSummaryStats

SpecPipeline == InitPipeline /\ [][NextPipeline]_vars

(***************************************************************************)
(* A latency function on conversations that any row may open               *)
(***************************************************************************)
MaxLeadRows == 4

\* rows of every sender, among them transfers and private messages
LeadCells ==
    {Cell(1, "Consumer", "Normal Message", SkillGptD, NaN),
     Cell(1, "Bot", "Normal Message", SkillGptD, NaN),
     Cell(1, "Agent", "Normal Message", SkillGptD, NameAbbot),
     Cell(1, "System", "Transfer", SkillGptD, NaN),
     Cell(1, "System", "Private Message", SkillGptD, NaN)}

InitLeading ==
    /\ call \in {"first", "subsequent"}
    /\ CallInit(<<call>>, Tables(LeadCells, MaxLeadRows, {ClockAsc}))

NextLeading ==
    \/ NextGroup
    \/ FirstResponseRow
    \/ SubsequentResponseRow
    \/ ReturnTable

SpecLeading == InitLeading /\ [][NextLeading]_vars

(***************************************************************************)
(* A latency function called on a batch, then on one of its conversations  *)
(***************************************************************************)
\* what a call made of conversation c: whether it raised, and the records of
\* c in the table it returned
OutcomeFor(c) ==
    [failed  |-> pc = "failed",
     records |-> IF pc = "failed" THEN <<>>
                 ELSE SelectSeq(FilterRecords(response_times),
                                LAMBDA rec : rec.conv = c)]

\* the call is over and conversation c was scanned to its end, or the call
\* raised in it, or raised when it built its table
EndedFor(c) ==
    \/ pc = "done"
    \/ pc = "failed" /\ error = Some("KeyError")
    \/ pc = "failed" /\ conv_id = Some(c)

\* the caller calls the same function again, with the same keywords, on the
\* rows of one conversation of the batch
CallOnConversation ==
    /\ pc \in {"done", "failed"}
    /\ results = <<>>
    /\ \E c \in {df[k].conv : k \in 1..Len(df)} :
         /\ EndedFor(c)
         /\ results' = <<[raw |-> df, conv |-> c, returned |-> OutcomeFor(c)]>>
         /\ df' = SelectSeq(df, LAMBDA row : row.conv = c)
         /\ conv_ids' = <<c>>
    /\ pc' = "groups"
    /\ conv_id' = None
    /\ group' = <<>>
    /\ i' = 1
    /\ first_consumer_message_time' = None
    /\ first_response_recorded' = FALSE
    /\ sender_name' = None
    /\ response_times' = <<>>
    /\ first_response_df' = None
    /\ subsequent_response_df' = None
    /\ error' = None
    /\ UNCHANGED <<keywords, call, todo, department, otherVars,
                   repetition_data, chats_with_repetition, total_chats,
                   result, raw, normVars, pending, metricVars>>

MaxBatchRows == 4

\* two conversations of a consumer and a bot
BatchCells ==
    {Cell(1, "Consumer", "Normal Message", SkillGptD, NaN),
     Cell(1, "Bot", "Normal Message", SkillGptD, NaN),
     Cell(2, "Consumer", "Normal Message", SkillGptD, NaN),
     Cell(2, "Bot", "Normal Message", SkillSales, NaN)}

\* sent times that rise over the first two rows and fall afterwards
ClockRiseFall ==
    [k \in 1..MaxClock |-> IF k <= 2 THEN k ELSE 2 * MaxClock - k]

\* either function on a batch of two conversations
InitIsolation ==
    /\ call \in {"first", "subsequent"}
    /\ CallInit(<<call>>, Tables(BatchCells, MaxBatchRows,
                                 {ClockAsc, ClockRiseFall}))

NextIsolation ==
    \/ NextGroup
    \/ FirstResponseRow
    \/ SubsequentResponseRow
    \/ ReturnTable
    \/ CallOnConversation

SpecIsolation == InitIsolation /\ [][NextIsolation]_vars

(***************************************************************************)
(* Properties of the latency scans.  They are stated over the input table  *)
(* and the records, not over the branches above.                           *)
(***************************************************************************)
\* all rows of a conversation, in table order
Conversation(c) == SelectSeq(df, LAMBDA row : row.conv = c)

IndexOfMessage(rows, mid) == CHOOSE k \in 1..Len(rows) : rows[k].mid = mid

HasMessage(rows, mid) == \E k \in 1..Len(rows) : rows[k].mid = mid

ConsumerRow(row) == row.sender = "Consumer"

TransferRow(row) == row.mtype = "Transfer"

SystemPrivateRow(row) ==
    row.sender = "System" /\ row.mtype = "Private Message"

\* a normal message of bot, agent or system
ReplyRow(row) ==
    row.sender \in {"Bot", "Agent", "System"} /\ row.mtype = "Normal Message"

\* the label of the row's sender contains "bot", whatever the case
BotLabelledRow(row) ==
    \/ row.sender = "Bot"
    \/ (row.sender = "Agent"
        /\ \E k \in 1..(Len(row.agent) - 2) :
              /\ row.agent[k] \in {"b", "B"}
              /\ row.agent[k + 1] \in {"o", "O"}
              /\ row.agent[k + 2] \in {"t", "T"})

HasConsumerBefore(rows, p) == \E k \in 1..(p - 1) : ConsumerRow(rows[k])

FirstConsumer(rows) ==
    CHOOSE k \in 1..Len(rows) :
        ConsumerRow(rows[k]) /\ \A j \in 1..(k - 1) : ~ConsumerRow(rows[j])

Max(S) == CHOOSE x \in S : \A y \in S : y <= x

\* the row whose sent time is the anchor when row p is reached: the first
\* consumer message, or the last transfer or system private message after it
AnchorRow(rows, p) ==
    Max({k \in FirstConsumer(rows)..(p - 1) :
            \/ k = FirstConsumer(rows)
            \/ TransferRow(rows[k])
            \/ SystemPrivateRow(rows[k])})

RecordsOf(table, c) == {n \in 1..Len(table) : table[n].conv = c}

\* C1: a first-response record's latency is the sent time of its message
\* minus the anchor, the anchor being the sent time of the conversation's
\* first consumer message or of the last transfer or system private message
\* that follows it and precedes the response.
C1_LatencyFromAnchor ==
    call = "first" =>
        \A n \in 1..Len(response_times) :
            LET rec == response_times[n]
                rows == Conversation(rec.conv)
                p == IndexOfMessage(rows, rec.mid)
            IN  /\ HasMessage(rows, rec.mid)
                /\ HasConsumerBefore(rows, p)
                /\ rec.latency = rows[p].time - rows[AnchorRow(rows, p)].time

\* a recorded reply that follows a transfer and is measured from it, not
\* from the consumer message
C1_Witness ==
    /\ call = "first"
    /\ \E n \in 1..Len(response_times) :
          LET rec == response_times[n]
              rows == Conversation(rec.conv)
              p == IndexOfMessage(rows, rec.mid)
          IN  /\ HasConsumerBefore(rows, p)
              /\ TransferRow(rows[AnchorRow(rows, p)])
              /\ AnchorRow(rows, p) # FirstConsumer(rows)
              /\ rec.latency # rows[p].time - rows[FirstConsumer(rows)].time

\* the replies the scan of a conversation meets while the anchor is set
RepliesAfterConsumer(rows) ==
    {k \in 1..Len(rows) : ReplyRow(rows[k]) /\ HasConsumerBefore(rows, k)}

Min(S) == CHOOSE x \in S : \A y \in S : x <= y

BotRepliesAfterConsumer(rows) ==
    {k \in RepliesAfterConsumer(rows) : BotLabelledRow(rows[k])}

SubsequentReplyStep ==
    /\ call = "subsequent"
    /\ pc = "rows"
    /\ ReplyRow(group[i])
    /\ first_consumer_message_time # None
    /\ pc' # "failed"

\* C3 as stated: the first reply of a conversation emits no record and
\* leaves anchor_time unchanged.
C3_FirstReplyKeepsAnchor ==
    [][(SubsequentReplyStep /\ ~first_response_recorded) =>
          /\ first_response_recorded'
          /\ response_times' = response_times
          /\ first_consumer_message_time' = first_consumer_message_time]_vars

\* C5 as stated: every reply after the first one clears anchor_time, whether
\* or not a record was emitted for it.
C5_LaterReplyClearsAnchor ==
    [][(SubsequentReplyStep /\ first_response_recorded) =>
          first_consumer_message_time' = None]_vars

\* C5 amended: a reply after the first one clears anchor_time only when its
\* label contains "bot", in which case its record is emitted; any other
\* reply emits nothing and leaves the anchor as it is, so that a later bot
\* reply is still measured from it; once the anchor is cleared no record is
\* emitted until a consumer message sets it again.
C5_BotReplyClearsAnchor ==
    [][/\ (SubsequentReplyStep /\ first_response_recorded) =>
            IF BotLabelledRow(group[i])
            THEN /\ Len(response_times') = Len(response_times) + 1
                 /\ response_times'[Len(response_times')].mid = group[i].mid
                 /\ first_consumer_message_time' = None
            ELSE /\ response_times' = response_times
                 /\ first_consumer_message_time' = first_consumer_message_time
       /\ (call = "subsequent" /\ pc = "rows"
             /\ first_consumer_message_time = None) =>
            /\ response_times' = response_times
            /\ first_consumer_message_time' # None => ConsumerRow(group[i])
      ]_vars

\* consumer message, agent's reply, bot reply: the bot's record is measured
\* from the consumer message, the agent's reply having left the anchor
C5_Witness ==
    /\ call = "subsequent"
    /\ \E n \in 1..Len(response_times) :
          LET rec == response_times[n]
              rows == Conversation(rec.conv)
              p == IndexOfMessage(rows, rec.mid)
          IN  /\ p >= 5
              /\ ConsumerRow(rows[p - 2])
              /\ ReplyRow(rows[p - 1]) /\ ~BotLabelledRow(rows[p - 1])
              /\ rec.latency = rows[p].time - rows[p - 2].time

\* the conversation is a plain dialogue: normal messages only, consumer and
\* bot taking turns, the consumer first
Dialogue(rows) ==
    /\ rows # <<>>
    /\ \A k \in 1..Len(rows) :
          /\ rows[k].mtype = "Normal Message"
          /\ rows[k].sender = IF k % 2 = 1 THEN "Consumer" ELSE "Bot"
          /\ rows[k].sender = "Bot" =>
                (HasKeywords => MatchesKeywords(
                    [sender |-> <<"B","O","T","_">> \o Lower(rows[k].skill)],
                    keywords[1]))

\* the records of a returned table for one conversation, as pairs
PairsOf(table, c) ==
    {<<table[n].mid, table[n].latency>> : n \in RecordsOf(table, c)}

C6_OnlyBotMessages ==
    /\ first_response_df # None =>
          \A n \in 1..Len(first_response_df[1]) :
              df[first_response_df[1][n].mid].sender = "Bot"
    /\ subsequent_response_df # None =>
          \A n \in 1..Len(subsequent_response_df[1]) :
              df[subsequent_response_df[1][n].mid].sender = "Bot"

\* C7: the first-response table has at most one record per conversation.
C7_OneRecordPerConversation ==
    first_response_df # None =>
        \A n, m \in 1..Len(first_response_df[1]) :
            first_response_df[1][n].conv = first_response_df[1][m].conv
                => n = m

\* a table with the record of a conversation that has several bot replies
C7_Witness ==
    /\ first_response_df # None
    /\ \E n \in 1..Len(first_response_df[1]) :
          Cardinality(BotRepliesAfterConsumer(
              Conversation(first_response_df[1][n].conv))) >= 2

\* C8 as stated: a reply sent earlier than the anchor does not make the
\* latency calculation fail.
C8_NegativeLatencyDoesNotFail ==
    error # Some("UnboundLocalError")

(***************************************************************************)
(* Properties of the repetition analysis, stated over the preprocessed     *)
(* table and the returned tuple.  A skill matches the filter as the        *)
(* detector tests it: the filter is empty, or one of its terms occurs in   *)
(* the skill, whatever the case.                                           *)
(***************************************************************************)
RepConversations == {df[k].conv : k \in 1..Len(df)}

RepTexts == {TextHi, TextBye}

TermInSkill(skill) ==
    \/ department.skill_filter = <<>>
    \/ /\ skill # NaN
       /\ \E f \in 1..Len(department.skill_filter) :
              LET term == Lower(department.skill_filter[f])
                  s    == Lower(skill)
              IN  \E a \in 1..Len(s) :
                      /\ a + Len(term) - 1 <= Len(s)
                      /\ \A b \in 1..Len(term) : s[a + b - 1] = term[b]

\* the selected messages of a conversation, as row numbers of df
SelectedMessages(c) ==
    {k \in 1..Len(df) : /\ df[k].conv = c
                        /\ df[k].sender = "Bot"
                        /\ df[k].mtype = "Normal Message"
                        /\ TermInSkill(df[k].skill)}

WithText(c, t) == {k \in SelectedMessages(c) : df[k].text = t}

Earliest(S) == CHOOSE k \in S : \A j \in S : df[k].time <= df[j].time

RecordsFor(records, c, t) ==
    {k \in 1..Len(records) : /\ records[k].conversation_id = c
                             /\ records[k].message = t}

\* C9: when get_repetitions has returned, each conversation has exactly one
\* record for each text that at least two of its selected messages carry,
\* with the number of those messages as repetition_count and the message id
\* of the earliest of them; a text that occurs once has no record, and every
\* record is one of these (so its count is at least 2).
C9_OneRecordPerRepeatedText ==
    result # None =>
        LET records == result[1].repetition_data
        IN  /\ \A c \in RepConversations, t \in RepTexts :
                   IF Cardinality(WithText(c, t)) >= 2
                   THEN \E k \in 1..Len(records) :
                          /\ RecordsFor(records, c, t) = {k}
                          /\ records[k].repetition_count =
                                 Cardinality(WithText(c, t))
                          /\ records[k].message_id =
                                 df[Earliest(WithText(c, t))].mid
                   ELSE RecordsFor(records, c, t) = {}
            /\ \A k \in 1..Len(records) :
                   /\ records[k].conversation_id \in RepConversations
                   /\ records[k].message \in RepTexts
                   /\ records[k].repetition_count >= 2

\* bot messages Hi, Hi, Bye on a matching skill, exported latest first, have
\* given the single record (Hi, 2) with the id of the earlier Hi
C9_Witness ==
    /\ result # None
    /\ department = DepartmentDoctors
    /\ Cardinality(WithText(1, TextHi)) = 2
    /\ Cardinality(WithText(1, TextBye)) = 1
    /\ Len(result[1].repetition_data) = 1
    /\ result[1].repetition_data[1].message = TextHi
    /\ result[1].repetition_data[1].repetition_count = 2
    /\ \E k \in WithText(1, TextHi) :
           df[k].mid < result[1].repetition_data[1].message_id

\* the conversations with a message, of any sender or type, whose skill
\* matches the filter
EligibleConversations ==
    {c \in RepConversations :
        \E k \in 1..Len(df) : df[k].conv = c /\ TermInSkill(df[k].skill)}

ConversationsWithRecord(records) ==
    {records[k].conversation_id : k \in 1..Len(records)}

\* C10: the returned denominator is the number of conversations with a
\* message whose skill matches the filter, the returned numerator is the
\* number of conversations with a record, and the conversations of the
\* numerator are among those of the denominator.
C10_NumeratorAndDenominator ==
    result # None =>
        LET counted == ConversationsWithRecord(result[1].repetition_data)
        IN  /\ result[1].total_chats = Cardinality(EligibleConversations)
            /\ result[1].chats_with_reps = Cardinality(counted)
            /\ counted \subseteq EligibleConversations

\* two eligible conversations, one of them by a message that is not a
\* selected one, and one conversation with a record
C10_Witness ==
    /\ result # None
    /\ department = DepartmentDoctors
    /\ result[1].total_chats = 2
    /\ result[1].chats_with_reps = 1
    /\ \E c \in EligibleConversations : SelectedMessages(c) = {}

\* a fraction <<n, d>> with d > 0 as a number
IsZero(q) == q[1] = 0

InPercentRange(q) == q[2] > 0 /\ 0 <= q[1] /\ q[1] <= 100 * q[2]

RecordSet(records) ==
    {<<records[k].conversation_id, records[k].message,
       records[k].repetition_count, records[k].message_id>> :
        k \in 1..Len(records)}

\* no two rows of a conversation share a sent time
DistinctTimes(table) ==
    \A a, b \in 1..Len(table) :
        (a # b /\ table[a].conv = table[b].conv)
            => table[a].time # table[b].time

SameAnalysis(r1, r2) ==
    /\ RecordSet(r1.repetition_data) = RecordSet(r2.repetition_data)
    /\ r1.chats_with_reps = r2.chats_with_reps
    /\ r1.total_chats = r2.total_chats
    /\ r1.percentage = r2.percentage

\* C12 as stated: when an export and then the same rows in another order
\* within each conversation have been analysed, the two analyses have
\* returned the same records, numerator, denominator and percentage.
C12_SameResultInAnyRowOrder ==
    (result # None /\ results # <<>>) =>
        SameAnalysis(result[1], results[1].returned)

\* C12, amended: the two analyses have returned the same when no two rows
\* of a conversation share a sent time.
C12_SameResultWhenTimesDistinct ==
    (result # None /\ results # <<>> /\ DistinctTimes(raw)) =>
        SameAnalysis(result[1], results[1].returned)

\* Hi, Hi, Bye of one conversation at three sent times, analysed in two
\* different row orders with the one record (Hi, 2) both times
C12_Witness ==
    /\ result # None
    /\ results # <<>>
    /\ DistinctTimes(raw)
    /\ Len(raw) = 3
    /\ raw # results[1].raw
    /\ Len(result[1].repetition_data) = 1
    /\ result[1].repetition_data[1].repetition_count = 2

(***************************************************************************)
(* Properties of the skill filter                                          *)
(***************************************************************************)
IsSubstring(needle, hay) ==
    \E a \in 0..(Len(hay) - Len(needle)) :
        \A b \in 1..Len(needle) : hay[a + b] = needle[b]

\* a term of the filter and the skill, case ignored, hold one another
EitherWayMatch(skill) ==
    /\ skill # NaN
    /\ \E f \in 1..Len(department.skill_filter) :
           LET term == Lower(department.skill_filter[f])
           IN  IsSubstring(term, Lower(skill)) \/ IsSubstring(Lower(skill), term)

EitherWayConversations ==
    {c \in RepConversations :
        \E k \in 1..Len(df) : df[k].conv = c /\ EitherWayMatch(df[k].skill)}

\* the conversations with a text that two bot normal messages of an
\* either-way matching skill carry
EitherWayRepeated ==
    {c \in RepConversations :
        \E a, b \in 1..Len(df) :
            /\ a # b
            /\ df[a].text = df[b].text
            /\ \A k \in {a, b} : /\ df[k].conv = c
                                 /\ df[k].sender = "Bot"
                                 /\ df[k].mtype = "Normal Message"
                                 /\ df[k].text # NaN
                                 /\ EitherWayMatch(df[k].skill)}

\* C13: with a filter that is not empty, the repetition detector (selection
\* and eligible count), process_conversations and the bot-handling ratio
\* each take a skill as matching exactly when a filter term and the skill
\* hold one another in either direction, case ignored; so they count the
\* same conversations as skill-matching.
C13_EitherWayInEveryComponent ==
    (pc = "handled" /\ department.skill_filter # <<>>) =>
        /\ result[1].total_chats = Cardinality(EitherWayConversations)
        /\ ConversationsWithRecord(result[1].repetition_data)
               = EitherWayRepeated
        /\ target_skill_conversations = EitherWayConversations
        /\ total_chats_with_skill = Cardinality(EitherWayConversations)

\* the conversations with a text that two of their bot normal messages carry
RepeatedInAnySkill ==
    {c \in RepConversations :
        \E a, b \in 1..Len(df) :
            /\ a # b
            /\ df[a].text = df[b].text
            /\ \A k \in {a, b} : /\ df[k].conv = c
                                 /\ df[k].sender = "Bot"
                                 /\ df[k].mtype = "Normal Message"
                                 /\ df[k].text # NaN}

\* C14: with an empty skill_filter the repetition detector selects all bot
\* normal messages and counts every conversation as eligible, the
\* bot-handling ratio counts every conversation as skill-matching, and
\* process_conversations tracks (so can keep) every conversation.
C14_EmptyFilterMatchesAll ==
    (pc = "handled" /\ department.skill_filter = <<>>) =>
        /\ result[1].total_chats = Cardinality(RepConversations)
        /\ ConversationsWithRecord(result[1].repetition_data)
               = RepeatedInAnySkill
        /\ total_chats_with_skill = Cardinality(RepConversations)
        /\ target_skill_conversations = RepConversations

(***************************************************************************)
(* Properties of the normalizers                                           *)
(***************************************************************************)
\* the normalizer has returned a table: df is its output, raw its input
Normalized == pc \in {"detect", "cleaned"}

SamePair(r1, r2) == r1.conv = r2.conv /\ r1.time = r2.time

PairBefore(r1, r2) ==
    \/ r1.conv < r2.conv
    \/ (r1.conv = r2.conv /\ r1.time < r2.time)

\* C15: the output of either normalizer is in rising order of
\* (conversation, sent time) with no pair twice, holds for every pair of the
\* input exactly one row, the first row of the input with that pair, and
\* holds no row that is not in the input.
C15_SortedFirstOfEachPair ==
    Normalized =>
        /\ \A a, b \in 1..Len(df) : a < b => PairBefore(df[a], df[b])
        /\ \A k \in 1..Len(raw) :
               LET first == CHOOSE j \in 1..k :
                                /\ SamePair(raw[j], raw[k])
                                /\ \A h \in 1..(j - 1) :
                                       ~SamePair(raw[h], raw[k])
                   kept == {a \in 1..Len(df) : SamePair(df[a], raw[k])}
               IN  /\ Cardinality(kept) = 1
                   /\ \A a \in kept : df[a] = raw[first]
        /\ \A a \in 1..Len(df) : \E k \in 1..Len(raw) : raw[k] = df[a]

\* an input that is out of order and has two rows with one pair has been
\* normalized to fewer rows
C15_Witness ==
    /\ Normalized
    /\ results = <<>>
    /\ Len(df) = 2
    /\ Len(raw) = 3
    /\ \E a, b \in 1..Len(raw) : a < b /\ PairBefore(raw[b], raw[a])
    /\ \E a, b \in 1..Len(raw) :
           a < b /\ SamePair(raw[a], raw[b]) /\ raw[a] # raw[b]

\* C16: when the normalizer has run on its own output, it has returned that
\* output again, the same rows in the same order.
C16_Idempotent ==
    (Normalized /\ results # <<>>) => df = results[1].returned

\* a first input that was not normalized, and the second run on the output
\* of the first
C16_Witness ==
    /\ Normalized
    /\ results # <<>>
    /\ Len(df) >= 2
    /\ results[1].raw # results[1].returned
    /\ raw = results[1].returned

\* C17: when a normalizer has run on a table that lacks a required column,
\* it has failed with an error naming the missing column, has returned no
\* table and has written no cleaned snapshot.
C17_SchemaErrorBeforeSnapshot ==
    (pc # "preprocess" /\ RequiredColumns \ columns # {}) =>
        /\ pc = "failed"
        /\ error # None
        /\ error[1].names = RequiredColumns \ columns
        /\ cleaned_file = None

(***************************************************************************)
(* Properties of the ratios of the delays analysis                         *)
(***************************************************************************)
NormalRowsSentBy(role) ==
    {k \in 1..Len(df) : df[k].mtype = "Normal Message" /\ df[k].sender = role}

\* C18 as stated: the returned value is agent_count / (agent_count +
\* bot_count) * 100 over the normal messages, 0 when there is neither, and
\* lies in [0,100]; the value is kept in hundredths.
C18_ExactAgentShare ==
    agent_percentage # None =>
        LET agents == Cardinality(NormalRowsSentBy("Agent"))
            bots   == Cardinality(NormalRowsSentBy("Bot"))
            value  == agent_percentage[1]
        IN  /\ 0 <= value /\ value <= 10000
            /\ agents + bots = 0 => value = 0
            /\ agents + bots > 0 =>
                   value * (agents + bots) = agents * 10000

\* C18, amended: the returned value is that share rounded to two places,
\* i.e. the hundredth nearest to it.
C18_RoundedAgentShare ==
    agent_percentage # None =>
        LET agents == Cardinality(NormalRowsSentBy("Agent"))
            bots   == Cardinality(NormalRowsSentBy("Bot"))
            value  == agent_percentage[1]
            diff   == value * (agents + bots) - agents * 10000
        IN  /\ 0 <= value /\ value <= 10000
            /\ agents + bots = 0 => value = 0
            /\ agents + bots > 0 =>
                   /\ 2 * diff <= agents + bots
                   /\ 2 * diff >= 0 - (agents + bots)

\* two bot and two agent normal messages and one transfer have given 50.0
C18_Witness ==
    /\ agent_percentage = Some(5000)
    /\ Cardinality(NormalRowsSentBy("Agent")) = 2
    /\ Cardinality(NormalRowsSentBy("Bot")) = 2
    /\ \E k \in 1..Len(df) : df[k].mtype = "Transfer"

\* a term of the filter occurs in the skill, case ignored (the test of the
\* handling ratio; with an empty filter no skill matches)
HandlingMatch(skill) ==
    /\ skill # NaN
    /\ \E f \in 1..Len(department.skill_filter) :
           IsSubstring(Lower(department.skill_filter[f]), Lower(skill))

SkillMatchingConversations ==
    {c \in RepConversations :
        \E k \in 1..Len(df) : df[k].conv = c /\ HandlingMatch(df[k].skill)}

FullyBotHandled ==
    {c \in SkillMatchingConversations :
        \A k \in 1..Len(df) : df[k].conv = c => df[k].agent = NaN}

\* C19 as stated: the returned value is the number of skill-matching
\* conversations without any agent name, over the number of skill-matching
\* conversations, times 100; it is 0 when none matches, lies in [0,100],
\* and is not lower for the export with one more skill-matching
\* conversation without agent name.  The value is kept in hundredths.
C19_ExactBotHandledShare ==
    handling_percentage # None =>
        LET total == Cardinality(SkillMatchingConversations)
            fully == Cardinality(FullyBotHandled)
            value == handling_percentage[1]
        IN  /\ 0 <= value /\ value <= 10000
            /\ total = 0 => value = 0
            /\ total > 0 => value * total = fully * 10000
            /\ results # <<>> => value >= results[1].returned

\* C19, amended: the returned value is that share rounded to two places.
C19_RoundedBotHandledShare ==
    handling_percentage # None =>
        LET total == Cardinality(SkillMatchingConversations)
            fully == Cardinality(FullyBotHandled)
            value == handling_percentage[1]
            diff  == value * total - fully * 10000
        IN  /\ 0 <= value /\ value <= 10000
            /\ total = 0 => value = 0
            /\ total > 0 => (2 * diff <= total /\ 2 * diff >= 0 - total)
            /\ results # <<>> => value >= results[1].returned

\* one of two skill-matching conversations was handled by the bot alone
\* (50.0); with one more such conversation it is two of three (66.67), and
\* a conversation without the skill is in neither count
C19_Witness ==
    /\ handling_percentage = Some(6667)
    /\ results # <<>>
    /\ results[1].returned = 5000
    /\ Cardinality(SkillMatchingConversations) = 3

(***************************************************************************)
(* Properties of the summary statistics.  Values of the summary are in     *)
(* hundredths of a second; the latency tables are in falling order.        *)
(***************************************************************************)
RECURSIVE SumOver(_, _)
SumOver(table, S) ==
    IF S = {} THEN 0
    ELSE LET k == CHOOSE x \in S : TRUE
         IN  table[k].latency + SumOver(table, S \ {k})

\* the rows of the partition below 240 s
Under240(table) == {k \in 1..Len(table) : table[k].latency < 240}

\* the statistics of C20 for one latency table and its summary entry
StatsAsClaimed(table, entry) ==
    LET under == Under240(table)
        n     == Cardinality(under)
        \* the table falls, so the partition is its last n rows
        low   == Len(table) - ((n - 1) \div 2)
        high  == Len(table) - (n \div 2)
        drift == entry.avg_response_time * n - 100 * SumOver(table, under)
    IN  /\ entry.count = Len(table)
        /\ entry.count_4plus =
               Cardinality({k \in 1..Len(table) : table[k].latency >= 240})
        /\ entry.count_under_4min + entry.count_4plus = entry.count
        /\ \E k \in 1..Len(table) :
               /\ entry.max_response_time = 100 * table[k].latency
               /\ \A j \in 1..Len(table) :
                      table[j].latency <= table[k].latency
        /\ IF n = 0
           THEN /\ entry.avg_response_time = 0
                /\ entry.median_response_time = 0
                /\ entry.min_response_time = 0
           ELSE /\ 2 * drift <= n /\ 2 * drift >= 0 - n
                /\ entry.median_response_time =
                       50 * (table[low].latency + table[high].latency)
                /\ \E k \in under :
                       /\ entry.min_response_time = 100 * table[k].latency
                       /\ \A j \in under :
                              table[k].latency <= table[j].latency

\* C20: for each latency table that is not empty the summary holds mean
\* (to two places), median and min of the latencies below 240 s only, all
\* three 0 when there is none, the max of all latencies, count_4plus as the
\* number of latencies of 240 s or more, and count_under_4min + count_4plus
\* = count.
C20_StatsOfThePartitions ==
    summary # None =>
        /\ first_response_df[1] # <<>> =>
               StatsAsClaimed(first_response_df[1], summary[1].first_response)
        /\ subsequent_response_df[1] # <<>> =>
               StatsAsClaimed(subsequent_response_df[1],
                              summary[1].subsequent_response)

\* first responses after 600, 240 and 7 s: mean, median and min are those
\* of the 7 s alone, max is 600 s and two responses count as 4 minutes or
\* more; the subsequent responses are all of 240 s or more
C20_Witness ==
    /\ summary # None
    /\ Len(first_response_df[1]) = 3
    /\ summary[1].first_response.avg_response_time = 700
    /\ summary[1].first_response.median_response_time = 700
    /\ summary[1].first_response.min_response_time = 700
    /\ summary[1].first_response.max_response_time = 60000
    /\ summary[1].first_response.count_4plus = 2
    /\ subsequent_response_df[1] # <<>>
    /\ summary[1].subsequent_response.count_under_4min = 0
    /\ summary[1].subsequent_response.avg_response_time = 0

\* the number of rows of a latency table that fall in the >= 240 s partition
In4PlusPartition(table) ==
    Cardinality({k \in 1..Len(table) : table[k].latency >= 240})

ShownCountAsClaimed(table, stats) ==
    /\ stats.avg_response_time_formatted.over_4_min = stats.count_4plus
    /\ stats.count_4plus = In4PlusPartition(table)

\* C21: in every summary the number n shown in avg_response_time_formatted
\* equals count_4plus of the same entry, the number of latencies of the
\* table of 240 s or more; both are 0 when every latency is below 240 s and
\* when the table is empty.
C21_ShownCountIsCount4Plus ==
    summary # None =>
        /\ ShownCountAsClaimed(first_response_df[1],
                               summary[1].first_response)
        /\ ShownCountAsClaimed(subsequent_response_df[1],
                               summary[1].subsequent_response)

(***************************************************************************)
(* Properties of the Segmenter, stated over the rows of the conversation   *)
(* (conv_data, the normal messages) and the index of the row in hand.      *)
(***************************************************************************)
Speaks(row) == LowerName(row.sender) \in {"agent", "bot"}

\* the index of the last bot/agent message before row k, 0 if there is none
PreviousSpeaker(rows, k) ==
    LET before == {j \in 1..(k - 1) : Speaks(rows[j])}
    IN  IF before = {} THEN 0 ELSE CHOOSE j \in before : \A h \in before : h <= j

LabelOf(row) == IF LowerName(row.sender) = "agent" THEN row.agent ELSE LabelBot

\* two labels differ; an agent message without name carries no label of its
\* own and differs from every message, as the missing value (NaN) compares
\* unequal to every value
Differ(label, previous) == label # previous \/ label = NaN

\* row k is a bot/agent message whose label differs from that of the
\* previous bot/agent message
LabelChanges(rows, k) ==
    /\ Speaks(rows[k])
    /\ PreviousSpeaker(rows, k) # 0
    /\ Differ(LabelOf(rows[k]), LabelOf(rows[PreviousSpeaker(rows, k)]))

\* the first row of the segment that is open before row k
OpenedAt(rows, k) ==
    LET changes == {j \in 1..(k - 1) : LabelChanges(rows, j)}
    IN  IF changes = {} THEN 1
        ELSE CHOOSE j \in changes : \A h \in changes : h <= j

IsLineOf(line, row) == line \in {Line(row, TRUE), Line(row, FALSE)}

MatchesFilter(skill) ==
    \E f \in 1..Len(department.skill_filter) :
        LET term == Lower(Str(department.skill_filter[f]))
            name == Lower(Str(skill))
        IN  IsSubstring(term, name) \/ IsSubstring(name, term)

\* C23: marking is turned on only by the first row of the conversation: after
\* the first row it is true exactly if the skill of that row matches the
\* skill filter, and no later row turns it on.
C23_OnlyFirstRowTurnsMarkingOn ==
    [][(pc = "segment_rows" /\ i' = i + 1) =>
           /\ (i = 1 => (marking' <=> MatchesFilter(group[1].skill)))
           /\ (i > 1 => (marking' => marking))]_vars

HasIdentifier(line) ==
    /\ Len(line) >= Len(Identifier)
    /\ SubSeq(line, 1, Len(Identifier)) = Identifier

LongName(skill) == skill # NaN /\ Len(skill) > 23

\* the rows that can turn marking on: those up to the first bot/agent
\* message, whose skill matches the filter
TurnsOn(rows, j) ==
    /\ \A h \in 1..(j - 1) : ~Speaks(rows[h])
    /\ MatchesFilter(rows[j].skill)

\* marking was turned on at or before row k and no later row up to and
\* including row k has a skill name of more than 23 characters
InWindow(rows, k) ==
    \E j \in 1..k :
        /\ TurnsOn(rows, j)
        /\ \A h \in 1..(j - 1) : ~TurnsOn(rows, h)
        /\ \A h \in (j + 1)..k : ~LongName(rows[h].skill)

\* C24: the line of a bot or agent message carries the [IDENTIFIER] prefix
\* exactly if marking was turned on and no later row up to and including its
\* own has a skill name longer than 23 characters; a consumer line never
\* carries it, and marking, once turned off, stays off.
C24_PrefixInsideTheWindow ==
    [][(pc = "segment_rows" /\ i' = i + 1) =>
           LET line == current_segment'[Len(current_segment')]
           IN  /\ Speaks(group[i]) =>
                      (HasIdentifier(line) <=> InWindow(group, i))
               /\ ~Speaks(group[i]) => ~HasIdentifier(line)
               /\ (marking /\ ~marking') => ~InWindow(group, i)
               /\ (~marking /\ marking') =>
                      \A h \in 1..(i - 1) : ~TurnsOn(group, h)]_vars

\* the lines of a transcript
RECURSIVE SplitLines(_)
SplitLines(text) ==
    IF \A k \in 1..Len(text) : text[k] # "\n" THEN <<text>>
    ELSE LET cut == CHOOSE k \in 1..Len(text) :
                        /\ text[k] = "\n"
                        /\ \A h \in 1..(k - 1) : text[h] # "\n"
         IN  <<SubSeq(text, 1, cut - 1)>>
             \o SplitLines(SubSeq(text, cut + 1, Len(text)))

\* the line was sent by a consumer: it opens with the consumer's name tag
ConsumerLine(line) ==
    /\ Len(line) >= Len(ConsumerColon)
    /\ SubSeq(line, 1, Len(ConsumerColon)) = ConsumerColon

HasConsumerLine(messages) ==
    \E k \in 1..Len(SplitLines(messages)) :
        ConsumerLine(SplitLines(messages)[k])

\* the segments of conversation c that hold a line of a consumer
WithConsumerLine(c) ==
    SelectSeq(all_segments,
              LAMBDA seg : seg.conv = c /\ HasConsumerLine(seg.messages))

OutputRows(c) == SelectSeq(merged_df[1], LAMBDA row : row.conv = c)

\* C25: the output is made of the segments that hold a line of a consumer,
\* whatever the text of the messages: a conversation has a row exactly if it
\* has a skill-matching message and such a segment, and its transcript is
\* made of those segments alone.
C25_OnlySegmentsWithConsumerLine ==
    merged_df # None =>
        \A c \in {df[k].conv : k \in 1..Len(df)} :
            IF c \in EitherWayConversations
               /\ WithConsumerLine(c) # <<>>
            THEN /\ Len(OutputRows(c)) = 1
                 /\ OutputRows(c)[1].messages =
                        Join([k \in 1..Len(WithConsumerLine(c)) |->
                                 WithConsumerLine(c)[k].messages],
                             Separator)
            ELSE OutputRows(c) = <<>>

\* the segments of conversation c that pass the segment filter, in the order
\* in which they were produced
KeptSegments(c) ==
    SelectSeq(all_segments,
              LAMBDA seg : seg.conv = c
                           /\ IsSubstring(ConsumerColon, seg.messages))

\* the label of a segment as text
LabelText(seg) ==
    IF seg.agent = None THEN <<"N","o","n","e">>
    ELSE IF seg.agent[1] = NaN THEN <<"n","a","n">>
    ELSE seg.agent[1]

\* the segments that are the first of their label, in order
FirstOfLabel(segs) ==
    SelectSeq([k \in 1..Len(segs) |-> [at |-> k, label |-> LabelText(segs[k])]],
              LAMBDA e : \A j \in 1..(e.at - 1) :
                             LabelText(segs[j]) # e.label)

\* the texts of parts, each but the last followed by sep, put end to end
RECURSIVE Concatenated(_, _, _)
Concatenated(parts, sep, k) ==
    IF k > Len(parts) THEN <<>>
    ELSE parts[k] \o (IF k < Len(parts) THEN sep ELSE <<>>)
         \o Concatenated(parts, sep, k + 1)

\* C26: the output has exactly one row for each conversation with a kept
\* segment and no other row; the transcript of the row is the kept segments
\* of the conversation joined with the separator in the order of their
\* production, and its agent label is the distinct labels of these segments
\* joined in first-seen order.
C26_OneRowPerConversation ==
    merged_df # None =>
        /\ \A a, b \in 1..Len(merged_df[1]) :
               a # b => merged_df[1][a].conv # merged_df[1][b].conv
        /\ \A c \in RepConversations :
               (OutputRows(c) # <<>>) <=> (KeptSegments(c) # <<>>)
        /\ \A k \in 1..Len(merged_df[1]) :
               LET row   == merged_df[1][k]
                   segs  == KeptSegments(row.conv)
                   first == FirstOfLabel(segs)
               IN  /\ row.messages =
                          Concatenated([j \in 1..Len(segs) |->
                                           segs[j].messages], Separator, 1)
                   /\ row.agent =
                          Concatenated([j \in 1..Len(first) |->
                                           first[j].label],
                                       <<",", " ">>, 1)

\* a conversation of a consumer, the bot, the agent Ann and the consumer
\* again: two kept segments, one row, the labels of both
C26_Witness ==
    /\ merged_df # None
    /\ Len(merged_df[1]) = 1
    /\ Len(KeptSegments(1)) = 2
    /\ HasConsumerLine(KeptSegments(1)[1].messages)
    /\ HasConsumerLine(KeptSegments(1)[2].messages)
    /\ merged_df[1][1].agent = LabelBot \o <<",", " ">> \o NameAnn
    /\ IsSubstring(Separator, merged_df[1][1].messages)

(***************************************************************************)
(* Properties of the API functions                                         *)
(***************************************************************************)
\* the departments of a list of results or of errors
DepartmentsOf(entries) == [k \in 1..Len(entries) |-> entries[k].department]

\* the places of the log whose department is in the list
Places(names) == {k \in 1..Len(log) : \E j \in 1..Len(names) : names[j] = log[k]}

BatchServed == endpoint = "analyze_all_departments" /\ pc = "responded"

\* the counts, results and errors add up to the configured departments
BatchAddsUp ==
    /\ log = DepartmentKeys
    /\ successful_analyses + failed_analyses = Len(DepartmentKeys)
    /\ Len(batch_results) = successful_analyses
    /\ Len(errors) = failed_analyses
    /\ Places(DepartmentsOf(batch_results))
           \cup Places(DepartmentsOf(errors)) = 1..Len(DepartmentKeys)
    /\ Places(DepartmentsOf(batch_results))
           \cap Places(DepartmentsOf(errors)) = {}

\* C27 as stated: in a batch every configured department is analysed once,
\* in sequence, whatever failed before it, and the batch response reports
\* successes and failures with successful_analyses + failed_analyses =
\* total_departments, one result per success and one error per failure.
C27_BatchResponseReportsAll ==
    /\ log = SubSeq(DepartmentKeys, 1, Len(log))
    /\ BatchServed =>
         /\ BatchAddsUp
         /\ response[1].status = 200
         /\ response[1].body.successful_analyses
                + response[1].body.failed_analyses
                = response[1].body.total_departments
         /\ Len(response[1].body.results)
                = response[1].body.successful_analyses
         /\ Len(response[1].body.errors) = response[1].body.failed_analyses

\* C27, amended: every configured department is analysed once, in sequence,
\* whatever failed before it; when at least one analysis succeeded the batch
\* response holds the results and the errors with counts that add up to the
\* number of departments, and when every analysis failed the call fails with
\* HTTP 500 and one error per department.
C27_BatchReportsAllUnlessAllFailed ==
    /\ log = SubSeq(DepartmentKeys, 1, Len(log))
    /\ BatchServed =>
         /\ BatchAddsUp
         /\ IF successful_analyses = 0
            THEN /\ response[1].status = 500
                 /\ response[1].detail = errors
                 /\ Len(errors) = Len(DepartmentKeys)
            ELSE /\ response[1].status = 200
                 /\ response[1].body.total_departments = Len(DepartmentKeys)
                 /\ response[1].body.successful_analyses
                        + response[1].body.failed_analyses
                        = response[1].body.total_departments
                 /\ response[1].body.results = batch_results
                 /\ response[1].body.errors = errors
                 /\ Len(response[1].body.results)
                        = response[1].body.successful_analyses
                 /\ Len(response[1].body.errors)
                        = response[1].body.failed_analyses

\* a batch response in which a department failed before another succeeded
C27_Witness ==
    /\ BatchServed
    /\ response[1].status = 200
    /\ \E a \in Places(DepartmentsOf(errors)),
          b \in Places(DepartmentsOf(batch_results)) : a < b

\* what a call returned, apart from the flag that describes the upload
AnalysisOf(r) ==
    IF r.status = 200 /\ "summary_sheet" \in DOMAIN r.body
    THEN [r EXCEPT !.body.summary_sheet.created = FALSE]
    ELSE r

\* the request before this one asked for the upload, and Google Sheets
\* failed it
UploadFailedBefore ==
    /\ responses # <<>>
    /\ responses[1].upload_to_sheets
    /\ responses[1].sheets_api # "ok"

SummarySheetCreated ==
    \E k \in 1..Len(uploads) :
        uploads[k].sheet = "summary" /\ uploads[k].created

\* C29 as stated: summary_sheet.created of the combined result is true only
\* if the summary sheet was created, and false when the upload failed or
\* was not attempted.
C29_CreatedFlagTellsTheOutcome ==
    (/\ pc = "responded"
     /\ endpoint = "analyze_combined"
     /\ response[1].status = 200
     /\ response[1].body.status = "SUCCESS")
        => (response[1].body.summary_sheet.created <=> SummarySheetCreated)

\* an export without rows: no line at all, or the header line only
EmptyExport ==
    /\ export # None
    /\ export[1].fetched
    /\ IsEmpty(export[1].rows)

\* nothing was normalized, written or uploaded
NothingDone ==
    /\ cleaned_file = None
    /\ output_files = {}
    /\ uploads = <<>>
    /\ result = None

\* C30 as stated: on an empty export the call does not fail; it returns the
\* empty result (zero conversations, zero repetitions, percentage 0; status
\* NO_DATA for the combined call) before anything is normalized, analysed,
\* written or uploaded.
C30_EmptyExportGivesEmptyResult ==
    (pc = "responded" /\ responses = <<>> /\ EmptyExport)
        => /\ NothingDone
           /\ response[1].status = 200
           /\ endpoint = "analyze_department"
                  => /\ response[1].body.total_conversations = 0
                     /\ response[1].body.conversations_with_repetitions = 0
                     /\ response[1].body.repetition_percentage = 0
                     /\ response[1].body.repetitions = <<>>
           /\ endpoint = "analyze_combined"
                  => /\ response[1].body.status = "NO_DATA"
                     /\ response[1].body.delays_analysis.status = "NO_DATA"

(***************************************************************************)
(* Properties of the latency scans across conversations                    *)
(***************************************************************************)
\* the second call, on the conversation alone, is over
AloneEnded == results # <<>> /\ pc \in {"done", "failed"}

\* C31 as stated: what a latency scan makes of a conversation (its records,
\* and whether the call fails) is the same in the batch and on the
\* conversation alone.
C31_OutcomeOfOwnRowsOnly ==
    AloneEnded => OutcomeFor(results[1].conv) = results[1].returned

\* the row the scan is at was not sent by the consumer, and no anchor is set
RowWithoutAnchor ==
    /\ pc = "rows"
    /\ first_consumer_message_time = None
    /\ LowerName(group[i].sender) # "consumer"

\* the row of the record has a consumer message before it in the rows of its
\* conversation
AfterConsumerMessage(rec) ==
    LET rows == GroupRows(df, rec.conv)
    IN  \E j, k \in 1..Len(rows) :
            /\ j < k
            /\ rows[k].mid = rec.mid
            /\ LowerName(rows[j].sender) = "consumer"

\* C32: in both variants a bot, agent or system row (normal message,
\* transfer or private message) met while no anchor is set leaves the anchor
\* and first_response_recorded as they are and emits nothing, and every
\* record is of a message that follows a consumer message of its
\* conversation.
C32_NothingBeforeFirstConsumerMessage ==
    /\ [][RowWithoutAnchor =>
             /\ first_consumer_message_time' = None
             /\ first_response_recorded' = first_response_recorded
             /\ response_times' = response_times]_vars
    /\ [](\A k \in 1..Len(response_times) :
              AfterConsumerMessage(response_times[k]))

\* a conversation opened by a bot message, with a record of a later reply
C32_Witness ==
    /\ response_times # <<>>
    /\ group # <<>>
    /\ LowerName(group[1].sender) = "bot"
    /\ response_times[1].mid # group[1].mid

(***************************************************************************)
(* Properties of the latency tables of analyze_department_delays           *)
(***************************************************************************)
NonNegative(recs) == \A k \in 1..Len(recs) : recs[k].latency >= 0

OutOfTimeOrder(table) ==
    \E j \in 1..Len(table) : \E k \in (j + 1)..Len(table) :
        /\ table[j].conv = table[k].conv
        /\ table[j].time > table[k].time

\* C33: on the table that preprocess_data returns, every latency that the
\* two scans record or return is at least 0, and no scan stops at the log
\* line of a negative latency
C33_NoNegativeLatencyAfterPreprocess ==
    /\ NonNegative(response_times)
    /\ first_response_df # None => NonNegative(first_response_df[1])
    /\ subsequent_response_df # None => NonNegative(subsequent_response_df[1])
    /\ error # Some("UnboundLocalError")

\* an export out of time order whose two tables were returned with records
C33_Witness ==
    /\ OutOfTimeOrder(raw)
    /\ first_response_df # None
    /\ subsequent_response_df # None
    /\ \E k \in 1..Len(first_response_df[1]) :
           first_response_df[1][k].latency > 0
    /\ \E k \in 1..Len(subsequent_response_df[1]) :
           subsequent_response_df[1][k].latency > 0

\* C35: a scan called with a non-empty keyword list that has recorded no
\* response returns a table, it does not raise on the missing column
C35_EmptyTableWithKeywords ==
    ~(/\ pc = "failed"
      /\ error = Some("KeyError")
      /\ HasKeywords
      /\ response_times = <<>>)

\* C34: no message has a record in the first-response table and a record
\* in the subsequent-response table of the same analysis
C34_NoMessageInBothTables ==
    (first_response_df # None /\ subsequent_response_df # None) =>
        \A a \in 1..Len(first_response_df[1]) :
            \A b \in 1..Len(subsequent_response_df[1]) :
                first_response_df[1][a].mid # subsequent_response_df[1][b].mid

(***************************************************************************)
(* Properties of segment_conversation                                      *)
(***************************************************************************)
\* the lines of the segments, one after the other
RECURSIVE LinesOf(_)
LinesOf(segs) ==
    IF segs = <<>> THEN <<>> ELSE Head(segs)[3] \o LinesOf(Tail(segs))

\* line k is the line of row k, with or without the identifier
LinesOfRows(lines, rows) ==
    \A k \in 1..Len(lines) :
        lines[k] \in {Line(rows[k], TRUE), Line(rows[k], FALSE)}

\* the rows whose lines are in segment s
RowsOfSegment(segs, s) ==
    LET before == Len(LinesOf(SubSeq(segs, 1, s - 1)))
    IN  (before + 1)..(before + Len(segs[s][3]))

\* the bot and agent lines of a segment are of the label of the segment
OwnLabel(segs, rows) ==
    \A s \in 1..Len(segs) : \A k \in RowsOfSegment(segs, s) :
        LowerName(rows[k].sender) \in {"agent", "bot"} =>
            segs[s][1] = Some(AgentLabel(rows[k]))

\* C36: the lines of the segments of segment_conversation are the lines of
\* the rows, one for each row and in the order of the rows, during the loop
\* (with the open segment) and in the list returned, and every bot or agent
\* line of a returned segment is of the label of its segment
C36_SegmentsKeepEveryLine ==
    /\ pc = "segment_rows" =>
           /\ Len(LinesOf(segments) \o current_segment) = i - 1
           /\ LinesOfRows(LinesOf(segments) \o current_segment, group)
           /\ OwnLabel(segments, group)
    /\ pc \in {"segment", "segmented"} =>
           /\ Len(LinesOf(segments)) = Len(group)
           /\ LinesOfRows(LinesOf(segments), group)
           /\ OwnLabel(segments, group)

\* a conversation returned in segments of different labels, one of them with
\* a line of the consumer
C36_Witness ==
    /\ pc = "segment"
    /\ Len(segments) >= 2
    /\ segments[1][1] # segments[2][1]
    /\ \E s \in 1..Len(segments) : Len(segments[s][3]) >= 2

(***************************************************************************)
(* TableauService.fetch_data: sign-in, the look-up of the workbook and of   *)
(* the view, the download, the file, and the sign-out of the finally block  *)
(***************************************************************************)
\* the characters that fetch_data replaces by a blank
Mojibake == <<"a^", "x80", "macron">>

\* str.replace(old, new): every occurrence, from the left
RECURSIVE ReplaceAll(_, _, _)
ReplaceAll(text, old, new) ==
    IF Len(text) < Len(old) THEN text
    ELSE IF SubSeq(text, 1, Len(old)) = old
    THEN new \o ReplaceAll(SubSeq(text, Len(old) + 1, Len(text)), old, new)
    ELSE <<text[1]>> \o ReplaceAll(Tail(text), old, new)

\* the text of a download: nothing, a header, a header and a row, and rows
\* with the characters that are replaced
CsvTexts ==
    {<<>>,
     <<"h">>,
     <<"h", "r">>,
     <<"h", "a^", "x80", "macron", "r">>,
     <<"a^", "x80", "a^", "x80", "macron">>}

\* the session token of a sign-in that succeeded
SessionToken == <<"t", "o", "k">>

\* how the server answers a sign-in: HTTP 200 with credentials, another
\* status, or a body that is no JSON
SignInAnswers == {"ok", "http_error", "not_json"}

\* how the server answers a look-up
LookupAnswers == {"found", "http_error", "not_found"}

\* how the sign-out request ends: answered 2xx, answered 401, or the
\* connection fails and requests.post raises
SignOutAnswers == {"ok", "unauthorized", "connection_error"}

Called(name, answer) == [call |-> name, answer |-> answer]

\* except Exception: the error is logged and fetch_data will return False
ReturnFalse(e) ==
    /\ error' = Some(e)
    /\ fetched' = Some(FALSE)
    /\ pc' = "finally"

\* token, site_luid = self.sign_in()
SignIn ==
    /\ pc = "sign_in"
    /\ \E answer \in SignInAnswers :
         /\ tableau_calls' = Append(tableau_calls, Called("signin", answer))
         /\ IF answer = "ok"
            THEN /\ token' = Some(SessionToken)
                 /\ pc' = "workbook"
                 /\ UNCHANGED <<error, fetched>>
            ELSE /\ ReturnFalse(RuntimeErrorOf(answer))
                 /\ UNCHANGED token
    /\ UNCHANGED <<df, conv_ids, delayVars, department, segVars, routeVars,
                   csv_data, csv_file, repetition_data,
                   chats_with_repetition, total_chats, result, runVars>>

\* a look-up: raise_for_status, or no entry of the name on the pages
Lookup(name, next) ==
    \E answer \in LookupAnswers :
        /\ tableau_calls' = Append(tableau_calls, Called(name, answer))
        /\ IF answer = "found"
           THEN /\ pc' = next
                /\ UNCHANGED <<error, fetched>>
           ELSE ReturnFalse(RuntimeErrorOf(answer))

\* workbook_id = self.get_workbook_id(token, site_luid)
GetWorkbookId ==
    /\ pc = "workbook"
    /\ Lookup("workbooks", "view")
    /\ UNCHANGED <<df, conv_ids, delayVars, department, segVars, routeVars,
                   token, csv_data, csv_file, repetition_data,
                   chats_with_repetition, total_chats, result, runVars>>

\* view_id = self.get_view_id(token, site_luid, workbook_id, view_name)
GetViewId ==
    /\ pc = "view"
    /\ Lookup("views", "download")
    /\ UNCHANGED <<df, conv_ids, delayVars, department, segVars, routeVars,
                   token, csv_data, csv_file, repetition_data,
                   chats_with_repetition, total_chats, result, runVars>>

\* download_csv: raise_for_status, or the text of the answer
DownloadCsv ==
    /\ pc = "download"
    /\ \/ /\ tableau_calls' = Append(tableau_calls,
                                     Called("data", "http_error"))
          /\ ReturnFalse(RuntimeErrorOf("http_error"))
          /\ UNCHANGED csv_data
       \/ \E text \in CsvTexts :
            /\ tableau_calls' = Append(tableau_calls, Called("data", "ok"))
            /\ csv_data' = Some(text)
            /\ pc' = "write"
            /\ UNCHANGED <<error, fetched>>
    /\ UNCHANGED <<df, conv_ids, delayVars, department, segVars, routeVars,
                   token, csv_file, repetition_data, chats_with_repetition,
                   total_chats, result, runVars>>

\* the replacement of the characters, the file, and return True; if open
\* raises the file is as before, if write raises it is left empty
WriteFile ==
    /\ pc = "write"
    /\ \/ /\ csv_file' = Some(ReplaceAll(csv_data[1], Mojibake, <<" ">>))
          /\ fetched' = Some(TRUE)
          /\ pc' = "finally"
          /\ UNCHANGED error
       \/ /\ csv_file' \in {csv_file, Some(<<>>)}
          /\ ReturnFalse([type |-> "OSError", names |-> {}])
    /\ UNCHANGED <<df, conv_ids, delayVars, department, segVars, routeVars,
                   token, csv_data, tableau_calls, repetition_data,
                   chats_with_repetition, total_chats, result, runVars>>

\* mutant: the failure of the sign-out request leaves sign_out
SignOutRaises_Escapes(answer) == answer = "connection_error"

\* sign_out catches every exception of its request
SignOutRaises(answer) == FALSE

\* finally: if token: self.sign_out(token); then fetch_data returns
Finally ==
    /\ pc = "finally"
    /\ IF token # None /\ token # Some(<<>>)
       THEN \E answer \in SignOutAnswers :
              /\ tableau_calls' =
                     Append(tableau_calls, Called("signout", answer))
              /\ IF SignOutRaises(answer)
                 THEN /\ pc' = "failed"
                      /\ error' = Some(RuntimeErrorOf(answer))
                      /\ fetched' = None
                 ELSE /\ pc' = "fetched"
                      /\ UNCHANGED <<error, fetched>>
       ELSE /\ pc' = "fetched"
            /\ UNCHANGED <<tableau_calls, error, fetched>>
    /\ UNCHANGED <<df, conv_ids, delayVars, department, segVars, routeVars,
                   token, csv_data, csv_file, repetition_data,
                   chats_with_repetition, total_chats, result, runVars>>

\* fetch_data is called for the view of a department: token = None
InitFetch ==
    Arrival({"none"}, {"applicants", "doctors", "cc_sales"}, {"ok"}, {None},
            "sign_in")

NextFetch ==
    \/ SignIn
    \/ GetWorkbookId
    \/ GetViewId
    \/ DownloadCsv
    \/ WriteFile
    \/ Finally

SpecFetch == InitFetch /\ [][NextFetch]_vars

(***************************************************************************)
(* Properties of the router                                                *)
(***************************************************************************)
\* C37: a request POST /analyze/all is served by analyze_all_departments; it
\* is not handed to the handler of one department with the name "all"
C37_BatchRouteServedByBatchHandler ==
    (request = Some(PostAnalyzeAll) /\ pc # "request") =>
        /\ endpoint = "analyze_all_departments"
        /\ response # Some(UnknownDepartment("all"))

\* C38: a request POST /delays/analyze/{department} is answered with the
\* result of the delays analysis of the department's table; it is answered
\* with an error only if the name is unknown (400) or if a table was fetched
\* and the fetch or the analysis failed
C38_DelaysEndpointReturnsAnalysis ==
    (endpoint = "delays" /\ pc = "responded") =>
        \/ response[1].status = 200 /\ delays_result # None
        \/ response[1].status = 400 /\ ~IsDepartment(request[1].path[3])
        \/ response[1].status = 500 /\ export # None

(***************************************************************************)
(* Properties of TableauService.fetch_data                                 *)
(***************************************************************************)
CallsTo(name) ==
    {k \in 1..Len(tableau_calls) : tableau_calls[k].call = name}

SignedIn ==
    \E k \in CallsTo("signin") : tableau_calls[k].answer = "ok"

\* what has been called and what is returned
FetchOutcome ==
    /\ pc # "failed"
    /\ Cardinality(CallsTo("signout")) <= 1
    /\ CallsTo("signout") # {} => SignedIn
    /\ \A k \in CallsTo("signout") : k = Len(tableau_calls)
    /\ pc = "fetched" =>
           /\ fetched \in {Some(TRUE), Some(FALSE)}
           /\ SignedIn => Cardinality(CallsTo("signout")) = 1
           /\ fetched = Some(TRUE) =>
                  /\ csv_data # None
                  /\ csv_file = Some(ReplaceAll(csv_data[1], Mojibake,
                                                <<" ">>))
           /\ fetched = Some(FALSE) <=> error # None

\* C39: a sign-in that succeeded is followed by exactly one sign-out, the
\* last call before fetch_data returns, whatever has failed in between, and
\* without a sign-in that succeeded there is none; fetch_data raises nothing;
\* it returns True only when the file holds the text of the download; the
\* sign-out, failing or not, leaves the value to return as it is
C39_OneSignOutAndNoRaise ==
    /\ []FetchOutcome
    /\ [][pc = "finally" => fetched' = fetched /\ pc' = "fetched"]_vars

\* the download has failed after the sign-in, the sign-out request has
\* failed too, and fetch_data has returned False
C39_Witness ==
    /\ pc = "fetched"
    /\ fetched = Some(FALSE)
    /\ SignedIn
    /\ \E k \in CallsTo("data") : tableau_calls[k].answer = "http_error"
    /\ \E k \in CallsTo("signout") :
           tableau_calls[k].answer = "connection_error"

(***************************************************************************)
(* Properties of the AVERAGE row                                           *)
(***************************************************************************)
LatenciesOf(rows) == [k \in 1..Len(rows) |-> rows[k].latency]

\* the AVERAGE row of a written table is that of the rows written with it
AverageOfKeptRows(written) ==
    written.average # None =>
        /\ written.average[1].count = Len(written.rows)
        /\ written.rows # <<>> =>
               written.average[1].mean = MeanOf(LatenciesOf(written.rows))
        /\ \A k \in 1..Len(written.rows) :
               IsUnder4Min(written.rows[k].latency)

\* C40: in every latency table that is written, the mean and the count of
\* the AVERAGE row are those of the rows that the table keeps, and the rows
\* kept are those below the 240 s of the summary statistics
C40_AverageRowOfKeptRows ==
    \A file \in output_files : AverageOfKeptRows(file[3])

====
